---- MODULE Spec2Model ----
(***************************************************************************)
(* Model of the workflow step-execution engine of quickdeck:               *)
(*   backend/app/server/job_execute_service.py  (JobExecuteService)        *)
(*   backend/app/executors/{factory,command,shell_script,python_script}.py *)
(*   backend/app/executors/{curl,mysql}.py                                 *)
(*                                                                         *)
(* A Python str is modelled as a sequence of tokens.  A token is either a  *)
(* single character ("A", " ", "\n", "<", "1") or a literal phrase of the  *)
(* source (the Chinese message literals are written in English), which is  *)
(* never a whitespace and holds no HTML special character.  Python values  *)
(* are tagged records ([t |-> "none"], [t |-> "int", n |-> 1], ...).       *)
(***************************************************************************)
EXTENDS Integers, Sequences, FiniteSets, TLC

(***************************************************************************)
(* Bounds of the explored inputs.                                          *)
(***************************************************************************)
MaxSteps == 2        \* steps per workflow, content-rich family
MaxOrderSteps == 3   \* steps per workflow, order-rich family
MaxOrder == 3        \* largest Step.order of the order-rich family
MaxArgs == 2         \* entries of the args dict
MaxCaps == 2         \* leading letters of a kind written in upper case
MaxConcSteps == 2    \* steps per workflow of two concurrent runs

(***************************************************************************)
(* Python values.                                                          *)
(***************************************************************************)
None == [t |-> "none"]
PyInt(n) == [t |-> "int", n |-> n]
PyStr(s) == [t |-> "str", s |-> s]
PyList(rows) == [t |-> "list", rows |-> rows]
FileObj(p) == [t |-> "dict", path |-> p]
EmptyDict == [k \in {} |-> None]

\* dict.get(key, default)
Get(d, key, default) == IF key \in DOMAIN d THEN d[key] ELSE default

\* d with d[key] = value (dict assignment, dict.update with one key)
Put(d, key, value) == [k \in DOMAIN d \cup {key} |-> IF k = key THEN value ELSE d[k]]

(***************************************************************************)
(* str operations.                                                         *)
(***************************************************************************)
Whitespace == {" ", "\n"}
Digits == {"0", "1", "2", "3", "4", "5", "6", "7", "8", "9"}
\* characters for which str.isdigit() is true: the decimal digits and
\* digit-like code points such as SUPERSCRIPT TWO, which int() rejects
DigitLike == Digits \cup {"^2"}

RECURSIVE LStrip(_)
LStrip(s) == IF s # <<>> /\ Head(s) \in Whitespace THEN LStrip(Tail(s)) ELSE s

RECURSIVE RStrip(_)
RStrip(s) ==
    IF s # <<>> /\ s[Len(s)] \in Whitespace THEN RStrip(SubSeq(s, 1, Len(s) - 1)) ELSE s

\* str.strip()
Strip(s) == RStrip(LStrip(s))

\* str.isdigit()
IsDigit(s) == s # <<>> /\ \A i \in 1..Len(s) : s[i] \in DigitLike

DigitVal(c) ==
    CASE c = "0" -> 0 [] c = "1" -> 1 [] c = "2" -> 2 [] c = "3" -> 3 [] c = "4" -> 4
      [] c = "5" -> 5 [] c = "6" -> 6 [] c = "7" -> 7 [] c = "8" -> 8 [] c = "9" -> 9

DigitChar(d) ==
    CASE d = 0 -> "0" [] d = 1 -> "1" [] d = 2 -> "2" [] d = 3 -> "3" [] d = 4 -> "4"
      [] d = 5 -> "5" [] d = 6 -> "6" [] d = 7 -> "7" [] d = 8 -> "8" [] d = 9 -> "9"

\* int(s) succeeds on a str of decimal digits
IntParses(s) == s # <<>> /\ \A i \in 1..Len(s) : s[i] \in Digits

RECURSIVE ParseInt(_)
ParseInt(s) == IF s = <<>> THEN 0 ELSE 10 * ParseInt(SubSeq(s, 1, Len(s) - 1)) + DigitVal(s[Len(s)])

RECURSIVE NatStr(_)
NatStr(n) == IF n < 10 THEN <<DigitChar(n)>> ELSE NatStr(n \div 10) \o <<DigitChar(n % 10)>>

\* str(n) of an int
IntStr(n) == IF n < 0 THEN <<"-">> \o NatStr(0 - n) ELSE NatStr(n)

\* str(value) of an argument value
StrOf(v) == IF v.t = "int" THEN IntStr(v.n) ELSE v.s

\* int(value) of an int or of a str
IntOf(v) == IF v.t = "int" THEN v.n ELSE ParseInt(v.s)
IntRaises(v) == v.t = "str" /\ ~IntParses(v.s)

\* html.escape of one token
EscapeTok(c) ==
    CASE c = "<" -> "&lt;"
      [] c = ">" -> "&gt;"
      [] c = "&" -> "&amp;"
      [] c = "'" -> "&#x27;"
      [] OTHER -> c

\* html.escape(text).replace("\n", "<br>")
EscapeBr(s) == [i \in 1..Len(s) |-> IF s[i] = "\n" THEN "<br>" ELSE EscapeTok(s[i])]

IsPrefix(p, s) == Len(p) <= Len(s) /\ SubSeq(s, 1, Len(p)) = p

\* p occurs in s as a contiguous run of tokens
Contains(s, p) == \E i \in 0..(Len(s) - Len(p)) : SubSeq(s, i + 1, i + Len(p)) = p

Last(s) == s[Len(s)]
(***************************************************************************)
(* The operating system: what a shell command line does when it is run.    *)
(* duration is the wall-clock time of the subprocess in seconds.           *)
(***************************************************************************)
Proc(out, err, rc, dur) == [stdout |-> out, stderr |-> err, returncode |-> rc, duration |-> dur]

Shell(command) ==
    CASE command = <<"echo A">>    -> Proc(<<"A", "\n">>, <<>>, 0, 0)
      [] command = <<"echo ' <B'">> -> Proc(<<" ", "<", "B", "\n">>, <<>>, 0, 0)
      [] command = <<"echo">>      -> Proc(<<"\n">>, <<>>, 0, 0)
      [] command = <<"exit 1">>    -> Proc(<<>>, <<>>, 1, 0)
      [] command = <<"ls /nope">>  -> Proc(<<"A", "\n">>, <<"E", "\n">>, 2, 0)
      [] command = <<"sleep 3">>   -> Proc(<<>>, <<>>, 0, 3)
      [] OTHER                     -> Proc(<<>>, <<"?", "\n">>, 127, 0)

\* variant: the timeout is not enforced
TimesOut_Never(proc, timeout) == FALSE

\* subprocess.run(..., timeout=t) raises TimeoutExpired
TimesOut(proc, timeout) == timeout.t = "int" /\ proc.duration > timeout.n

(***************************************************************************)
(* What a user script of a PythonScript step does.  kind "return": the     *)
(* execute function returns (text, dataset); "raise": it raises; "exit":   *)
(* the script leaves the interpreter (sys.exit) before the driver's call   *)
(* of execute completes, with no marker block.                             *)
(***************************************************************************)
Prog(prints, kind, text, dataset, err, rc, dur) ==
    [prints |-> prints, kind |-> kind, text |-> text, dataset |-> dataset,
     stderr |-> err, returncode |-> rc, duration |-> dur]

\* a dataset row: a dict, as the ordered list of its (key, value) items
DictRow(items) == [t |-> "dict", items |-> items]
Row1 == DictRow(<<<<"k", "1">>, <<"<", "A">>>>)
Row2 == DictRow(<<<<"k", "2">>>>)

UserScript(script) ==
    CASE script = <<"ret_text">>  -> Prog(<<>>, "return", <<"T">>, None, <<>>, 0, 0)
      [] script = <<"ret_data">>  -> Prog(<<"L", "\n">>, "return", <<"U">>, PyList(<<Row1, Row2>>), <<>>, 0, 0)
      [] script = <<"ret_empty">> -> Prog(<<>>, "return", <<>>, PyList(<<>>), <<"W", "\n">>, 0, 0)
      [] script = <<"ret_dict">>  -> Prog(<<>>, "return", <<"T">>, [t |-> "dict", path |-> <<>>], <<>>, 0, 0)
      [] script = <<"raise">>     -> Prog(<<"L", "\n">>, "raise", <<"X">>, None, <<>>, 1, 0)
      [] script = <<"exit">>      -> Prog(<<"L", "\n">>, "exit", <<>>, None, <<"E", "\n">>, 3, 0)
      [] script = <<"sleep">>     -> Prog(<<>>, "return", <<"T">>, None, <<>>, 0, 3)
      [] OTHER                    -> Prog(<<>>, "exit", <<>>, None, <<"SyntaxError", "\n">>, 1, 0)

NoBlock == [t |-> "none"]
Block(d) == [t |-> "json", value |-> d]

\* The generated driver program (python_script.py, script_parts): stdout is
\* what the user code printed followed by the marker block, if one is printed.
Driver(prog, initial_result) ==
    LET failed(msg) ==
            [pre |-> prog.prints,
             block |-> Block(Put(Put(Put(initial_result, "text", msg), "dataset", None),
                                 "logs", Get(initial_result, "logs", <<>>))),
             stderr |-> prog.stderr, returncode |-> 1, duration |-> prog.duration]
    IN  CASE prog.kind = "exit" ->
               [pre |-> prog.prints, block |-> NoBlock, stderr |-> prog.stderr,
                returncode |-> prog.returncode, duration |-> prog.duration]
          [] prog.kind = "raise" ->
               failed(<<"error in execute function: ">> \o prog.text \o <<"\n", "Traceback">>)
          [] prog.kind = "return" /\ prog.dataset.t \notin {"none", "list"} ->
               failed(<<"error in execute function: ", "dataset must be a list, got ", prog.dataset.t,
                        "\n", "Traceback">>)
          [] OTHER ->
               [pre |-> prog.prints,
                block |-> Block(Put(Put(initial_result, "text", prog.text), "dataset", prog.dataset)),
                stderr |-> prog.stderr, returncode |-> 0, duration |-> prog.duration]

(***************************************************************************)
(* Executors.  execute(args, context, result) either returns               *)
(* (context, result) or raises; started tells whether the subprocess was   *)
(* started (its external side effects happen), result is the result dict   *)
(* as the executor left it (it is mutated in place, also when the call     *)
(* raises).  No executor changes the context.  files holds the temporary   *)
(* script files the call created and did not delete, events what the call *)
(* did on its way besides starting a subprocess: "render" a template,      *)
(* create a "tempfile", "connect" to the database server.                  *)
(***************************************************************************)
Returned(result) ==
    [ok |-> TRUE, exc |-> "", msg |-> <<>>, result |-> result, started |-> TRUE, files |-> {},
     events |-> <<>>]
Raised(exc, msg, result, started) ==
    [ok |-> FALSE, exc |-> exc, msg |-> msg, result |-> result, started |-> started, files |-> {},
     events |-> <<>>]

\* the file tempfile.NamedTemporaryFile(mode='w', suffix=suffix, delete=False) creates
TempScript(suffix) == <<"/tmp/tmp", suffix>>

\* f.write(s) raises UnicodeEncodeError unless every character of s can be
\* encoded; a lone surrogate cannot
Encodable(s) == \A i \in 1..Len(s) : s[i] # "U+D800"

EncodeErrorMessage == <<"'utf-8' codec can't encode character ", "U+D800", ": surrogates not allowed">>

\* f.write raises inside `with`: the file was created with delete=False, no
\* subprocess was started, and no cleanup deletes the file (shell_script.py:
\* the with statement is before the try; python_script.py: script_path is
\* still None in the finally block)
WriteFailed(exc, msg, result, suffix) ==
    [Raised(exc, msg, result, FALSE) EXCEPT !.files = {TempScript(suffix)}]

\* result["text"] = f"{current_text}\n{output}".strip() if current_text else output
AppendText(result, output) ==
    LET current_text == Get(result, "text", <<>>)
    IN  Put(result, "text",
            IF current_text # <<>> THEN Strip(current_text \o <<"\n">> \o output) ELSE output)

\* variant: the exit code is looked at before the outputs are appended
AppendOutputs_ExitCodeFirst(result, proc) ==
    IF proc.returncode # 0 THEN result
    ELSE LET r1 == IF proc.stdout # <<>> THEN AppendText(result, proc.stdout) ELSE result
         IN  IF proc.stderr # <<>> THEN AppendText(r1, <<"[error]", "\n">> \o proc.stderr) ELSE r1

\* the stdout / stderr handling shared by CommandExecutor and ShellScriptExecutor
AppendOutputs(result, proc) ==
    LET r1 == IF proc.stdout # <<>> THEN AppendText(result, proc.stdout) ELSE result
    IN  IF proc.stderr # <<>> THEN AppendText(r1, <<"[error]", "\n">> \o proc.stderr) ELSE r1

\* the outcome of a call that did the events on its way
After(out, events) == [out EXCEPT !.events = events]

\* variant: the command is run without a look at whether there is one
CommandExecute_Unguarded(args, context, result) ==
    LET extension == Get(context, "step_extension", EmptyDict)
        command == Get(extension, "command", <<>>)
        proc == Shell(command)
        r == AppendOutputs(result, proc)
    IN  IF TimesOut(proc, Get(context, "timeout", PyInt(300)))
        THEN Raised("TimeoutError", <<"command timed out: ">> \o command, result, TRUE)
        ELSE IF proc.returncode # 0
        THEN Raised("RuntimeError",
                    <<"command execution error: ", "command failed, return code: ">> \o IntStr(proc.returncode)
                        \o <<"\n">> \o proc.stderr,
                    r, TRUE)
        ELSE Returned(r)

CommandExecute(args, context, result) ==
    LET extension == Get(context, "step_extension", EmptyDict)
        command == Get(extension, "command", <<>>)
        proc == Shell(command)
        r == AppendOutputs(result, proc)
    IN  IF command = <<>> THEN Raised("ValueError", <<"command must not be empty">>, result, FALSE)
        ELSE IF TimesOut(proc, Get(context, "timeout", PyInt(300)))
        THEN Raised("TimeoutError", <<"command timed out: ">> \o command, result, TRUE)
        ELSE IF proc.returncode # 0
        THEN Raised("RuntimeError",
                    <<"command execution error: ", "command failed, return code: ">> \o IntStr(proc.returncode)
                        \o <<"\n">> \o proc.stderr,
                    r, TRUE)
        ELSE Returned(r)

ShellScriptExecute(args, context, result) ==
    LET extension == Get(context, "step_extension", EmptyDict)
        script == Get(extension, "script", <<>>)
        proc == Shell(script)
        r == AppendOutputs(result, proc)
    IN  IF script = <<>> THEN Raised("ValueError", <<"script must not be empty">>, result, FALSE)
        ELSE After(IF ~Encodable(script)
                   THEN WriteFailed("UnicodeEncodeError", EncodeErrorMessage, result, ".sh")
                   ELSE IF TimesOut(proc, Get(context, "timeout", PyInt(300)))
                   THEN Raised("TimeoutError", <<"script timed out">>, result, TRUE)
                   ELSE IF proc.returncode # 0
                   THEN Raised("RuntimeError",
                               <<"script execution error: ", "script failed, return code: ">>
                                   \o IntStr(proc.returncode) \o <<"\n">> \o proc.stderr,
                               r, TRUE)
                   ELSE Returned(r),
                   <<"tempfile">>)

\* variant: log output is appended to the text
AppendLogs_ToText(result, entry) == AppendText(result, entry)

\* result["logs"] = f"{current_logs}\n{entry}".strip() if current_logs else entry
AppendLogs(result, entry) ==
    LET current_logs == Get(result, "logs", <<>>)
    IN  Put(result, "logs",
            IF current_logs # <<>> THEN Strip(current_logs \o <<"\n">> \o entry) ELSE entry)

\* python_script.py 308-327: result.update(script_result) and the merge of logs
MergeScriptResult(result, script_result) ==
    LET current_logs == Get(result, "logs", <<>>)
        script_logs == Get(script_result, "logs", <<>>)
        updated == [k \in DOMAIN result \cup DOMAIN script_result |->
                        IF k \in DOMAIN script_result THEN script_result[k] ELSE result[k]]
    IN  Put(updated, "logs",
            IF current_logs # <<>> /\ script_logs # <<>>
            THEN Strip(current_logs \o <<"\n">> \o script_logs)
            ELSE IF current_logs # <<>> THEN current_logs
            ELSE IF script_logs # <<>> THEN script_logs
            ELSE Get(updated, "logs", <<>>))

PythonScriptExecute(args, context, result) ==
    LET extension == Get(context, "step_extension", EmptyDict)
        script == Get(extension, "script", <<>>)
        initial_result == IF "logs" \in DOMAIN result THEN result ELSE Put(result, "logs", <<>>)
        proc == Driver(UserScript(script), initial_result)
        r0 == IF "logs" \in DOMAIN result THEN result ELSE Put(result, "logs", <<>>)
        \* 293-334: stdout
        r1 == IF proc.block.t = "json"
              THEN LET normal_output == Strip(proc.pre)
                       rl == IF normal_output # <<>> THEN AppendLogs(r0, normal_output) ELSE r0
                   IN  MergeScriptResult(rl, proc.block.value)
              ELSE IF proc.pre # <<>> THEN AppendLogs(r0, proc.pre) ELSE r0
        \* 337-339: stderr
        r2 == IF proc.stderr # <<>> THEN AppendLogs(r1, <<"[error]", "\n">> \o proc.stderr) ELSE r1
        \* 342-350: non-zero return code
        error_msg == <<"script failed, return code: ">> \o IntStr(proc.returncode)
                        \o (IF proc.stderr # <<>> THEN <<"\n">> \o proc.stderr ELSE <<>>)
        r3 == IF Contains(Get(r2, "logs", <<>>), error_msg) THEN r2
              ELSE AppendLogs(r2, <<"[failed] ">> \o error_msg)
    IN  IF script = <<>> THEN Raised("ValueError", <<"script must not be empty">>, result, FALSE)
        ELSE After(IF ~Encodable(script)
                   THEN WriteFailed("RuntimeError", <<"script execution error: ">> \o EncodeErrorMessage,
                                    result, ".py")
                   ELSE IF TimesOut(proc, Get(context, "timeout", PyInt(300)))
                   THEN Raised("TimeoutError", <<"script timed out">>, result, TRUE)
                   ELSE IF proc.returncode # 0
                   THEN Raised("RuntimeError", <<"script execution error: ">> \o error_msg, r3, TRUE)
                   ELSE Returned(r2),
                   <<"tempfile">>)

(***************************************************************************)
(* ExecutorFactory.                                                        *)
(***************************************************************************)
\* the letters of the kinds explored, as (lower case, upper case)
CasePairs ==
    { <<"a", "A">>, <<"c", "C">>, <<"d", "D">>, <<"e", "E">>, <<"h", "H">>, <<"i", "I">>,
      <<"l", "L">>, <<"m", "M">>, <<"n", "N">>, <<"o", "O">>, <<"p", "P">>, <<"q", "Q">>,
      <<"r", "R">>, <<"s", "S">>, <<"t", "T">>, <<"u", "U">>, <<"y", "Y">> }

LowerChar(c) ==
    IF \E p \in CasePairs : p[2] = c THEN (CHOOSE p \in CasePairs : p[2] = c)[1] ELSE c

\* str.lower() of a str given character by character
Lower(s) == [i \in 1..Len(s) |-> LowerChar(s[i])]

\* the characters of the str values of StepTypeEnum (models.py) and of a
\* kind that is no member of it
Chars(value) ==
    CASE value = "command" -> <<"c", "o", "m", "m", "a", "n", "d">>
      [] value = "shell_script" -> <<"s", "h", "e", "l", "l", "_", "s", "c", "r", "i", "p", "t">>
      [] value = "python_script" -> <<"p", "y", "t", "h", "o", "n", "_", "s", "c", "r", "i", "p", "t">>
      [] value = "curl" -> <<"c", "u", "r", "l">>
      [] value = "mysql" -> <<"m", "y", "s", "q", "l">>
      [] value = "cmd" -> <<"c", "m", "d">>

\* the members of StepTypeEnum, by value
StepTypeEnum == {"command", "shell_script", "python_script", "curl", "mysql"}

\* ExecutorFactory._executors: the step types that have an executor; each key
\* stands for the one instance created for it when the class is defined
Executors == {"command", "shell_script", "python_script"}

\* variant: the kind is looked up as it is spelled
GetExecutor_CaseSensitive(step_type) ==
    LET found == { key \in Executors : PyStr(Chars(key)) = step_type }
    IN  IF found # {} THEN CHOOSE key \in found : TRUE ELSE ""

\* ExecutorFactory.get_executor of None or of a str: the key of the executor
\* returned, or "" when it raises ValueError
GetExecutor(step_type) ==
    LET step_type_lower == IF step_type.t = "str" /\ step_type.s # <<>>
                           THEN PyStr(Lower(step_type.s)) ELSE step_type
        found == { key \in Executors : PyStr(Chars(key)) = step_type_lower }
    IN  IF found # {} THEN CHOOSE key \in found : TRUE ELSE ""

\* executor.execute of the executor registered under key
Execute(key, args, context, result) ==
    CASE key = "command" -> CommandExecute(args, context, result)
      [] key = "shell_script" -> ShellScriptExecute(args, context, result)
      [] key = "python_script" -> PythonScriptExecute(args, context, result)
(***************************************************************************)
(* Output rendering (JobExecuteService._generate_*_html).                  *)
(***************************************************************************)
RECURSIVE Concat(_)
Concat(ss) == IF ss = <<>> THEN <<>> ELSE Head(ss) \o Concat(Tail(ss))

GenerateTextHtml(text) == <<"<div>">> \o EscapeBr(text) \o <<"</div>">>

GenerateErrorHtml(error_message) ==
    <<"<div style=color:red>">> \o EscapeBr(error_message) \o <<"</div>">>

\* row.get(header, "") of a dict row
RowGet(row, header) ==
    IF \E i \in 1..Len(row.items) : row.items[i][1] = header
    THEN row.items[CHOOSE i \in 1..Len(row.items) : row.items[i][1] = header][2]
    ELSE ""

GenerateTableHtml(dataset) ==
    IF dataset.t = "none" \/ (dataset.t = "list" /\ dataset.rows = <<>>)
    THEN <<"<div>", "no data", "</div>">>
    ELSE IF dataset.t = "list"
    THEN LET first == dataset.rows[1]
             headers == IF first.t = "dict"
                        THEN [i \in 1..Len(first.items) |-> first.items[i][1]]
                        ELSE <<"value">>
             rows == IF first.t = "dict" THEN dataset.rows
                     ELSE [i \in 1..Len(dataset.rows) |->
                              DictRow(<<<<"value", dataset.rows[i].s>>>>)]
             cells(row) == IF row.t = "dict"
                           THEN Concat([j \in 1..Len(headers) |->
                                           <<"<td>", EscapeTok(RowGet(row, headers[j])), "</td>">>])
                           ELSE <<"<td>", EscapeTok(row.s), "</td>">>
         IN  <<"<table>", "<thead><tr>">>
             \o Concat([j \in 1..Len(headers) |-> <<"<th>", EscapeTok(headers[j]), "</th>">>])
             \o <<"</tr></thead>", "<tbody>">>
             \o Concat([i \in 1..Len(rows) |-> <<"<tr>">> \o cells(rows[i]) \o <<"</tr>">>])
             \o <<"</tbody>", "</table>">>
    ELSE <<"<div>", "other", "</div>">>

\* variant: a non-empty text takes precedence over the dataset
RenderResult_TextFirst(result) ==
    LET dataset == Get(result, "dataset", None)
    IN  IF Get(result, "text", <<>>) = <<>> /\ dataset # None
        THEN GenerateTableHtml(dataset)
        ELSE GenerateTextHtml(Get(result, "text", <<>>))

\* execute_job 135-143: the rendering of the terminal result
RenderResult(result) ==
    LET dataset == Get(result, "dataset", None)
    IN  IF dataset # None
        THEN GenerateTableHtml(dataset)
        ELSE GenerateTextHtml(Get(result, "text", <<>>))

IsTable(html) == html # <<>> /\ html[1] = "<table>"
(***************************************************************************)
(* CurlExecutor and MysqlExecutor.  Both render their template with jinja2 *)
(* first; a template is a sequence of literal pieces and of placeholders.  *)
(***************************************************************************)
\* Template(t) raises TemplateSyntaxError on an unfinished block tag
RenderRaises(template) == \E i \in 1..Len(template) : template[i] = "{% if"

\* Template(t).render(**args): each placeholder gives way to the str of the
\* argument it names, an undefined name renders as the empty str
Render(template, args) ==
    LET Placeholders == { <<"{{ f }}", "f">>, <<"{{ x }}", "x">> }
        value(name) == IF \E i \in 1..Len(args) : args[i][1] = name
                       THEN StrOf(args[CHOOSE i \in 1..Len(args) : args[i][1] = name][2])
                       ELSE <<>>
        piece(tok) == IF \E p \in Placeholders : p[1] = tok
                      THEN value((CHOOSE p \in Placeholders : p[1] = tok)[2])
                      ELSE <<tok>>
    IN  Concat([i \in 1..Len(template) |-> piece(template[i])])

\* `if not v` of None, an int or a str
Falsy(v) == v = None \/ v = PyInt(0) \/ v = PyStr(<<>>)

\* _fix_data_raw_json: the quoted payload that follows --data-raw is kept
\* when it is JSON, rewritten to JSON when it is a Python literal, and kept
\* when it is neither
FixDataRawJson(curl_command) ==
    [i \in 1..Len(curl_command) |->
        IF i > 2 /\ curl_command[i - 2] = "--data-raw " /\ curl_command[i - 1] = "'"
        THEN CASE curl_command[i] = "{'a': True}" -> "{\"a\": true}"
               [] OTHER -> curl_command[i]
        ELSE curl_command[i]]

\* _format_json_if_valid
FormatJsonIfValid(text) ==
    IF Strip(text) = <<>> THEN text
    ELSE IF Strip(text) = <<"{\"a\":1}">> THEN <<"{", "\n", "  \"a\": 1", "\n", "}">>
    ELSE text

\* what the curl command line does when bash runs it
CurlProc(curl_command) ==
    CASE curl_command = <<>> -> Proc(<<>>, <<>>, 0, 0)
      [] curl_command # <<>> /\ curl_command[1] = "curl http://h/json" ->
            Proc(<<"{\"a\":1}", "\n">>, <<>>, 0, 0)
      [] curl_command # <<>> /\ curl_command[1] = "curl http://h/" ->
            Proc(SubSeq(curl_command, 2, Len(curl_command)), <<>>, 0, 0)
      [] curl_command # <<>> /\ curl_command[1] = "curl http://down" ->
            Proc(<<>>, <<"curl: (7) Failed to connect", "\n">>, 7, 0)
      [] curl_command # <<>> /\ curl_command[1] = "curl http://slow" -> Proc(<<>>, <<>>, 0, 3)
      [] OTHER -> Proc(<<>>, <<"?", "\n">>, 127, 0)

\* result["logs"] = f"{current_logs}{entry}" if current_logs else entry.strip()
AppendRendered(result, entry) ==
    LET current_logs == Get(result, "logs", <<>>)
    IN  Put(result, "logs", IF current_logs # <<>> THEN current_logs \o entry ELSE Strip(entry))

\* result["logs"] = f"{current_logs}\n{entry}" if current_logs else entry
AppendPlain(result, entry) ==
    LET current_logs == Get(result, "logs", <<>>)
    IN  Put(result, "logs", IF current_logs # <<>> THEN current_logs \o <<"\n">> \o entry ELSE entry)

CurlExecute(args, context, result) ==
    LET extension == Get(context, "step_extension", EmptyDict)
        curl_template == Get(extension, "curl", <<>>)
        curl_command == FixDataRawJson(Render(curl_template, args))
        r1 == AppendRendered(result, <<"\n", "[CURL command]", "\n", "=*80", "\n">> \o curl_command
                                          \o <<"\n", "=*80", "\n">>)
        proc == CurlProc(curl_command)
        r2 == IF proc.stdout # <<>> THEN AppendText(r1, FormatJsonIfValid(proc.stdout)) ELSE r1
        r3 == IF proc.stdout # <<>>
              THEN AppendPlain(r2, <<"[output]", "\n">> \o proc.stdout) ELSE r2
        r4 == IF proc.stderr # <<>>
              THEN AppendPlain(r3, <<"[stderr]", "\n">> \o proc.stderr) ELSE r3
    IN  IF curl_template = <<>> THEN Raised("ValueError", <<"CURL command must not be empty">>, result, FALSE)
        ELSE IF RenderRaises(curl_template)
        THEN After(Raised("ValueError", <<"rendering the CURL command failed: ", "unexpected end of template">>,
                          result, FALSE), <<"render">>)
        ELSE IF ~Encodable(curl_command)
        THEN After(WriteFailed("UnicodeEncodeError", EncodeErrorMessage, r1, ".sh"),
                   <<"render", "tempfile">>)
        ELSE IF TimesOut(proc, Get(context, "timeout", PyInt(300)))
        THEN After(Raised("TimeoutError", <<"CURL command timed out">>, r1, TRUE),
                   <<"render", "tempfile">>)
        ELSE IF proc.returncode # 0
        THEN After(Raised("RuntimeError",
                          <<"CURL command execution error: ", "CURL command failed, return code: ">>
                              \o IntStr(proc.returncode) \o <<"\n">> \o proc.stderr,
                          r4, TRUE),
                   <<"render", "tempfile">>)
        ELSE After(Returned(r4), <<"render", "tempfile">>)

\* _get_mysql_connection: all([host, user, password, database])
ConfigComplete(credential_config) ==
    \A k \in {"host", "user", "password", "database"} : Get(credential_config, k, "") # ""

\* sql.strip().upper() starts with SELECT, SHOW, DESCRIBE or DESC
IsQuery(sql) ==
    Strip(sql) # <<>> /\ Strip(sql)[1] \in {"SELECT 1", "select * from t where a = ", "SHOW TABLES"}

\* what the MySQL server at the configured host answers to a statement
MysqlServer(credential_config, sql) ==
    CASE credential_config.host # "h" ->
            [kind |-> "error", msg |-> <<"(2003) Can't connect to MySQL server">>]
      [] credential_config.host = "h" /\ sql = <<"SELECT 1">> ->
            [kind |-> "rows", rows |-> <<DictRow(<<<<"1", "1">>>>)>>]
      [] credential_config.host = "h" /\ sql # <<>> /\ sql[1] = "select * from t where a = " ->
            [kind |-> "rows", rows |-> <<>>]
      [] credential_config.host = "h" /\ sql = <<"DELETE FROM t">> ->
            [kind |-> "rowcount", n |-> 2]
      [] OTHER -> [kind |-> "error", msg |-> <<"(1064) You have an error in your SQL syntax">>]

\* _format_result_as_json: json.dumps(rows as dicts, indent=2)
FormatResultAsJson(rows) ==
    IF rows = <<>> THEN <<"[]">>
    ELSE <<"[", "\n">>
         \o Concat([i \in 1..Len(rows) |->
                      <<"  {", "\n">>
                      \o Concat([j \in 1..Len(rows[i].items) |->
                                   <<"    \"", rows[i].items[j][1], "\": ", rows[i].items[j][2], "\n">>])
                      \o <<"  }", "\n">>])
         \o <<"]">>

\* variant: the type of the credential is not looked at
CredentialError_AnyType(credentials_map, credential_id) ==
    IF IntRaises(credential_id)
    THEN <<"invalid literal for int() with base 10: ", "'">> \o credential_id.s \o <<"'">>
    ELSE IF IntOf(credential_id) \notin DOMAIN credentials_map
    THEN <<"no credential with id ">> \o StrOf(credential_id)
    ELSE IF credentials_map[IntOf(credential_id)].config = EmptyDict
    THEN <<"credential ">> \o StrOf(credential_id) \o <<" has an empty config">>
    ELSE <<>>

\* mysql.py 127-139: the message of the ValueError raised while the credential
\* of a credential_id that is set is looked up, <<>> when none is raised
CredentialError(credentials_map, credential_id) ==
    IF IntRaises(credential_id)
    THEN <<"invalid literal for int() with base 10: ", "'">> \o credential_id.s \o <<"'">>
    ELSE IF IntOf(credential_id) \notin DOMAIN credentials_map
    THEN <<"no credential with id ">> \o StrOf(credential_id)
    ELSE IF credentials_map[IntOf(credential_id)].credential_type # "mysql"
    THEN <<"credential ">> \o StrOf(credential_id) \o <<" is not a MySQL credential">>
    ELSE IF credentials_map[IntOf(credential_id)].config = EmptyDict
    THEN <<"credential ">> \o StrOf(credential_id) \o <<" has an empty config">>
    ELSE <<>>

MysqlExecute(args, context, result) ==
    LET extension == Get(context, "step_extension", EmptyDict)
        sql_template == Get(extension, "sql", <<>>)
        credential_id == Get(extension, "credential_id", None)
        credentials_map == Get(context, "credentials_map", EmptyDict)
        credential == credentials_map[IntOf(credential_id)]
        credential_config == credential.config
        sql == Render(sql_template, args)
        r1 == AppendRendered(result, <<"\n", "[MySQL SQL]", "\n", "=*80", "\n">> \o sql
                                          \o <<"\n", "=*80", "\n">>)
        failed(msg, events) ==
            LET error_message == <<"MySQL statement failed: ">> \o msg
            IN  After(Raised("RuntimeError", error_message,
                             AppendPlain(r1, <<"[error info]", "\n">> \o error_message), FALSE),
                      events)
        reply == MysqlServer(credential_config, sql)
        queried == LET formatted_result == FormatResultAsJson(reply.rows)
                       r2 == AppendText(r1, formatted_result)
                       r3 == AppendPlain(r2, <<"[query result]", "\n", "rows found: ">>
                                                \o NatStr(Len(reply.rows)))
                   IN  Put(r3, "dataset", PyList(reply.rows))
        updated == LET result_message == <<"done, rows affected: ">> \o NatStr(reply.n)
                       r2 == AppendText(r1, result_message)
                   IN  AppendPlain(r2, <<"[result]", "\n">> \o result_message)
    IN  IF sql_template = <<>> THEN Raised("ValueError", <<"SQL must not be empty">>, result, FALSE)
        ELSE IF Falsy(credential_id)
        THEN Raised("ValueError", <<"MySQL credential id must not be empty">>, result, FALSE)
        ELSE IF CredentialError(credentials_map, credential_id) # <<>>
        THEN Raised("ValueError", CredentialError(credentials_map, credential_id), result, FALSE)
        ELSE IF RenderRaises(sql_template)
        THEN After(Raised("ValueError", <<"rendering the SQL failed: ", "unexpected end of template">>,
                          result, FALSE), <<"render">>)
        ELSE IF ~ConfigComplete(credential_config)
        THEN failed(<<"MySQL credential config incomplete">>, <<"render">>)
        ELSE IF reply.kind = "error" THEN failed(reply.msg, <<"render", "connect">>)
        ELSE IF IsQuery(sql) THEN After(Returned(queried), <<"render", "connect">>)
        ELSE After(Returned(updated), <<"render", "connect">>)

\* execute of an instance of the executor class written for the step type
ClassExecute(cls, args, context, result) ==
    CASE cls = "curl" -> CurlExecute(args, context, result)
      [] cls = "mysql" -> MysqlExecute(args, context, result)
      [] OTHER -> Execute(cls, args, context, result)


(***************************************************************************)
(* The database and the file system the runs work against.                 *)
(***************************************************************************)
\* Credential.config of a mysql credential
MysqlConfig(host) == [host |-> host, user |-> "u", password |-> "p", database |-> "d"]

\* table credentials (models.Credential)
CredentialTable ==
    { [id |-> 1, project_id |-> 1, credential_type |-> "mysql", name |-> "db1",
       config |-> MysqlConfig("h")],
      [id |-> 2, project_id |-> 2, credential_type |-> "mysql", name |-> "db2",
       config |-> MysqlConfig("down")],
      [id |-> 3, project_id |-> 1, credential_type |-> "oss", name |-> "oss1",
       config |-> [endpoint |-> "e"]],
      [id |-> 4, project_id |-> 1, credential_type |-> "mysql", name |-> "db4",
       config |-> EmptyDict],
      [id |-> 5, project_id |-> 1, credential_type |-> "mysql", name |-> "db5",
       config |-> [host |-> "h"]] }

\* paths that exist on the server before a run (uploaded files)
UploadedPaths == { <<"/u">>, <<"/v">> }

(***************************************************************************)
(* Inputs of execute_job.                                                  *)
(***************************************************************************)
Enum(v) == [t |-> "enum", value |-> v]      \* a StepTypeEnum member
Column(v) == [t |-> "str", s |-> v]         \* a str loaded from the String column

Ext(key, value) == [k \in {key} |-> value]

\* step_type and extension of the steps explored
StepContents ==
    { [step_type |-> Enum("command"), extension |-> Ext("command", <<"echo A">>)],
      [step_type |-> Enum("command"), extension |-> Ext("command", <<"echo ' <B'">>)],
      [step_type |-> Enum("command"), extension |-> Ext("command", <<"exit 1">>)],
      [step_type |-> Enum("command"), extension |-> Ext("command", <<"ls /nope">>)],
      [step_type |-> Enum("command"), extension |-> Ext("command", <<"sleep 3">>)],
      [step_type |-> Enum("command"), extension |-> None],
      [step_type |-> Enum("shell_script"), extension |-> Ext("script", <<"echo A">>)],
      [step_type |-> Enum("shell_script"), extension |-> Ext("script", <<"ls /nope">>)],
      [step_type |-> Enum("shell_script"), extension |-> Ext("script", <<"sleep 3">>)],
      [step_type |-> Enum("shell_script"), extension |-> Ext("script", <<"echo ", "U+D800">>)],
      [step_type |-> Enum("python_script"), extension |-> Ext("script", <<"ret_text">>)],
      [step_type |-> Enum("python_script"), extension |-> Ext("script", <<"ret_data">>)],
      [step_type |-> Enum("python_script"), extension |-> Ext("script", <<"ret_empty">>)],
      [step_type |-> Enum("python_script"), extension |-> Ext("script", <<"raise">>)],
      [step_type |-> Enum("python_script"), extension |-> Ext("script", <<"exit">>)],
      [step_type |-> Enum("python_script"), extension |-> Ext("script", <<"sleep">>)],
      [step_type |-> Enum("python_script"), extension |-> Ext("script", <<"ret_text", "U+D800">>)],
      [step_type |-> Enum("curl"), extension |-> Ext("curl", <<"curl http://h">>)],
      [step_type |-> Enum("mysql"),
       extension |-> [sql |-> <<"SELECT 1">>, credential_id |-> PyInt(1)]],
      [step_type |-> Column("command"), extension |-> Ext("command", <<"echo A">>)] }

EchoA == [step_type |-> Enum("command"), extension |-> Ext("command", <<"echo A">>)]

OrderContents ==
    { EchoA,
      [step_type |-> Enum("command"), extension |-> Ext("command", <<"exit 1">>)] }

MkStep(id, order, content) ==
    [id |-> id, order |-> order, step_type |-> content.step_type, extension |-> content.extension]

SeqsUpTo(S, n) == UNION { [1..k -> S] : k \in 0..n }

\* workflow.steps with the contents cs, orders 1..n as stored
ContentSteps(cs) == [i \in 1..Len(cs) |-> MkStep(i, i, cs[i])]

\* workflow.steps from (order, content) pairs: any orders, ties included
OrderSteps(cs) == [i \in 1..Len(cs) |-> MkStep(i, cs[i][1], cs[i][2])]

Opt(name, type) == [name |-> name, option_type |-> type]

OptionLists ==
    { <<Opt("f", "file"), Opt("g", "file"), Opt("cred", "credential"), Opt("n", "number")>>,
      <<Opt("f", "text"), Opt("cred", "number"), Opt("x", "credential")>> }

ArgNames == <<"f", "g", "cred", "x">>

ArgValues ==
    { PyStr(<<"/u">>), PyStr(<<"/x">>), FileObj(<<"/v">>), FileObj(<<>>),
      PyInt(1), PyInt(2), PyInt(3), PyStr(<<"1">>), PyStr(<<"^2">>) }

\* args: a dict in insertion order, as the sequence of its (key, value) items
KeySeqs ==
    { ks \in SeqsUpTo(1..Len(ArgNames), MaxArgs) : \A i, j \in 1..Len(ks) : i < j => ks[i] < ks[j] }

ArgDict(ks, vs) == [i \in 1..Len(ks) |-> <<ArgNames[ks[i]], vs[i]>>]

Timeouts == { None, PyInt(1), PyInt(5) }

MkJob(project_id) == [id |-> 1, name |-> "job", project_id |-> project_id]

MkWorkflow(timeout, options, steps) ==
    [timeout |-> timeout, retry |-> 0, options |-> options, steps |-> steps]

DefaultOptions == <<Opt("f", "file"), Opt("g", "file"), Opt("cred", "credential"), Opt("n", "number")>>

Call(job, workflow, args, db) == [job |-> job, workflow |-> workflow, args |-> args, db |-> db]

\* the calls of execute_job explored are of four families: rich in step
\* contents, in step orders, in arguments, and with a retry count
ContentCall(t, cs, d) ==
    Call(MkJob(1), MkWorkflow(t, DefaultOptions, ContentSteps(cs)), <<>>, d)

OrderCall(cs, d) ==
    Call(MkJob(1), MkWorkflow(PyInt(5), DefaultOptions, OrderSteps(cs)), <<>>, d)

ArgCall(p, o, a, d) ==
    Call(MkJob(p), MkWorkflow(PyInt(5), o, <<MkStep(1, 1, EchoA)>>), a, d)

\* workflow.retry of the retry family (the other families have retry 0)
Retries == {1, 3}

WithRetry(w, r) == [w EXCEPT !.retry = r]

RetryCall(r, cs, d) ==
    Call(MkJob(1), WithRetry(MkWorkflow(PyInt(5), DefaultOptions, ContentSteps(cs)), r), <<>>, d)

(***************************************************************************)
(* State of one call of JobExecuteService.execute_job and of its world.    *)
(***************************************************************************)
VARIABLES
    pc,               \* position in execute_job
    job, workflow, args, db,   \* parameters (db: a session was passed)
    processed_args,   \* execute_job local
    temp_files,       \* execute_job local
    context, result,  \* execute_job locals
    steps, idx,       \* the sorted steps and the position of the for loop
    exc,              \* the exception in flight, or None
    ret,              \* the dict returned, or None
    records,          \* table job_executions
    fs,               \* paths that exist on the server
    invoked,          \* ids of the steps whose executor was invoked, in order
    effects,          \* ids of the steps whose subprocess was started, in order
    step_types,       \* arguments of the calls of ExecutorFactory.get_executor
    resolved,         \* what the calls of get_executor made so far gave
    runs,             \* the locals of each of two concurrent calls of execute_job
    instances,        \* the attributes of each registered executor instance
    executing,        \* a call of execute made on an executor directly
    outcome           \* what that call gave, or None while it has not been made

run_vars == <<pc, job, workflow, args, db, processed_args, temp_files, context, result,
              steps, idx, exc, ret, records, fs, invoked, effects>>

factory_vars == <<step_types, resolved>>

conc_vars == <<runs, instances>>

\* the state outside a call of execute_job
exec_vars == <<executing, outcome>>

other_vars == <<factory_vars, conc_vars, exec_vars>>

vars == <<run_vars, other_vars>>

Exc(type, msg) == [t |-> "exc", type |-> type, msg |-> msg]

\* no call of execute_job has been made
Idle ==
    /\ pc = "idle"
    /\ job = None /\ workflow = None /\ args = <<>> /\ db = FALSE
    /\ processed_args = <<>> /\ temp_files = <<>>
    /\ context = EmptyDict /\ result = EmptyDict
    /\ steps = <<>> /\ idx = 1
    /\ exc = None /\ ret = None
    /\ records = <<>>
    /\ fs = UploadedPaths
    /\ invoked = <<>> /\ effects = <<>>

\* the executor classes define no attribute and their instances are created
\* without any
NoAttributes == [key \in Executors |-> EmptyDict]

\* no concurrent calls are under way
NoRuns == runs = <<>> /\ instances = NoAttributes

Init ==
    /\ Idle
    /\ step_types = <<>> /\ resolved = <<>>
    /\ NoRuns
    /\ executing = None /\ outcome = None

\* a caller calls execute_job(job, workflow, args, user_id, db)
Called(c) == job' = c.job /\ workflow' = c.workflow /\ args' = c.args /\ db' = c.db

Enter ==
    /\ pc = "idle"
    /\ \/ \E k \in 0..MaxSteps : \E cs \in [1..k -> StepContents] :
             \E t \in Timeouts, d \in BOOLEAN : Called(ContentCall(t, cs, d))
       \/ \E k \in 0..MaxOrderSteps : \E cs \in [1..k -> (1..MaxOrder) \X OrderContents] :
             \E d \in BOOLEAN : Called(OrderCall(cs, d))
       \/ \E ks \in KeySeqs : \E vs \in [1..Len(ks) -> ArgValues] :
             \E p \in {1, 2}, o \in OptionLists, d \in BOOLEAN :
                Called(ArgCall(p, o, ArgDict(ks, vs), d))
       \/ \E k \in 0..MaxSteps : \E cs \in [1..k -> OrderContents] :
             \E r \in Retries, d \in BOOLEAN : Called(RetryCall(r, cs, d))
    /\ pc' = "files"
    /\ UNCHANGED <<processed_args, temp_files, context, result, steps, idx, exc, ret,
                   records, fs, invoked, effects>>
    /\ UNCHANGED other_vars

(***************************************************************************)
(* execute_job 37-77: file arguments.                                      *)
(***************************************************************************)
\* type(value).__name__
TypeName(v) == v.t

\* _save_file_to_temp: the uploaded path held by the file object, if it exists
SaveFileToTemp(file_obj, fsys) ==
    IF file_obj.path # <<>> /\ file_obj.path \in fsys
    THEN [ok |-> TRUE, path |-> file_obj.path, msg |-> <<>>]
    ELSE [ok |-> FALSE, path |-> <<>>,
          msg |-> <<"cannot process file ", "'", "unknown file", "'", ", upload it first">>]

\* the loop over args.items() from item i on; stops at the first raise
RECURSIVE ResolveFileArgs(_, _, _, _, _)
ResolveFileArgs(i, a, options, fsys, acc) ==
    IF i > Len(a) THEN acc
    ELSE LET key == a[i][1]
             value == a[i][2]
             is_file == \E j \in 1..Len(options) :
                            options[j].name = key /\ options[j].option_type = "file"
             saved == SaveFileToTemp(value, fsys)
             raise(msg) == [acc EXCEPT !.exc = Exc("ValueError", msg)]
         IN  IF ~is_file THEN ResolveFileArgs(i + 1, a, options, fsys, acc)
             ELSE IF value.t = "str"
             THEN IF value.s \in fsys
                  THEN ResolveFileArgs(i + 1, a, options, fsys,
                           [acc EXCEPT !.processed_args[i] = <<key, value>>])
                  ELSE raise(<<"file argument ", "'", key, "'", " path does not exist: ">> \o value.s)
             ELSE IF value.t = "dict"
             THEN IF saved.ok
                  THEN ResolveFileArgs(i + 1, a, options, fsys,
                           [acc EXCEPT !.processed_args[i] = <<key, PyStr(saved.path)>>,
                                       !.temp_files = Append(@, saved.path)])
                  ELSE raise(saved.msg)
             ELSE raise(<<"file argument ", "'", key, "'",
                          " must be a path or a file object, got ", TypeName(value)>>)

\* variant: a file argument that cannot be resolved is passed on as it is
ResolveFiles_KeepGoing ==
    /\ pc = "files"
    /\ LET r == ResolveFileArgs(1, args, workflow.options, fs,
                    [processed_args |-> args, temp_files |-> <<>>, exc |-> None])
       IN  /\ processed_args' = r.processed_args
           /\ temp_files' = r.temp_files
           /\ exc' = None
           /\ pc' = "credentials"
    /\ UNCHANGED <<job, workflow, args, db, context, result, steps, idx, ret, records, fs,
                   invoked, effects>>
    /\ UNCHANGED other_vars

ResolveFiles ==
    /\ pc = "files"
    /\ LET r == ResolveFileArgs(1, args, workflow.options, fs,
                    [processed_args |-> args, temp_files |-> <<>>, exc |-> None])
       IN  /\ processed_args' = r.processed_args
           /\ temp_files' = r.temp_files
           /\ exc' = r.exc
           /\ pc' = IF r.exc = None THEN "credentials" ELSE "raised"
    /\ UNCHANGED <<job, workflow, args, db, context, result, steps, idx, ret, records, fs,
                   invoked, effects>>
    /\ UNCHANGED other_vars

(***************************************************************************)
(* execute_job 79-117: credentials, context, result, sorted steps.         *)
(***************************************************************************)
\* variant: the option's type is not looked at
IsCredentialOption_AnyType(options, key) ==
    \E j \in 1..Len(options) : options[j].name = key

IsCredentialOption(options, key) ==
    \E j \in 1..Len(options) : options[j].name = key /\ options[j].option_type = "credential"

\* 84-89: the values collected as credential ids, as the list of the argument
\* positions whose value is taken
CredentialArgs(pargs, options) ==
    { i \in 1..Len(pargs) :
        /\ pargs[i][2].t \in {"int", "str"}
        /\ IsDigit(StrOf(pargs[i][2]))
        /\ IsCredentialOption(options, pargs[i][1]) }

\* variant: the query is not scoped to the project
QueryCredentials_AnyProject(ids, project_id) == { c \in CredentialTable : c.id \in ids }

\* 93-96: db.query(Credential).filter(id in ids, project_id == project).all()
QueryCredentials(ids, project_id) ==
    { c \in CredentialTable : c.id \in ids /\ c.project_id = project_id }

\* variant: the credentials are loaded whether or not a session was passed
LoadCredentials_NoSession(pargs, options, project_id, session) ==
    LET credential_ids == { IntOf(pargs[i][2]) : i \in CredentialArgs(pargs, options) }
        credentials == QueryCredentials(credential_ids, project_id)
    IN  [id \in { c.id : c \in credentials } |-> CHOOSE c \in credentials : c.id = id]

\* 80-97
LoadCredentials(pargs, options, project_id, session) ==
    LET credential_ids == { IntOf(pargs[i][2]) : i \in CredentialArgs(pargs, options) }
        credentials == IF session THEN QueryCredentials(credential_ids, project_id) ELSE {}
    IN  [id \in { c.id : c \in credentials } |-> CHOOSE c \in credentials : c.id = id]

\* variant: the steps are taken in their stored order
SortedByOrder_Stored(ss) == ss

\* sorted(workflow.steps, key=lambda s: s.order): stable insertion sort
RECURSIVE InsertByOrder(_, _)
InsertByOrder(sorted, s) ==
    IF sorted = <<>> THEN <<s>>
    ELSE IF Last(sorted).order <= s.order THEN Append(sorted, s)
    ELSE Append(InsertByOrder(SubSeq(sorted, 1, Len(sorted) - 1), s), Last(sorted))

RECURSIVE SortedByOrder(_)
SortedByOrder(ss) ==
    IF ss = <<>> THEN <<>>
    ELSE InsertByOrder(SortedByOrder(SubSeq(ss, 1, Len(ss) - 1)), Last(ss))

InitialResult == [text |-> <<>>, dataset |-> None, logs |-> <<>>]

InitialContext(j, w, credentials_map) ==
    [job_id |-> PyInt(j.id), job_name |-> PyStr(<<j.name>>), user_id |-> PyInt(7),
     timeout |-> w.timeout, retry |-> PyInt(w.retry), project_id |-> PyInt(j.project_id),
     credentials_map |-> credentials_map]

Prepare ==
    /\ pc = "credentials"
    /\ LET bad == { i \in CredentialArgs(processed_args, workflow.options) :
                        IntRaises(processed_args[i][2]) }
       IN  IF bad # {}
           THEN /\ exc' = Exc("ValueError",
                              <<"invalid literal for int() with base 10: ", "'">>
                                \o processed_args[CHOOSE i \in bad : \A k \in bad : i <= k][2].s
                                \o <<"'">>)
                /\ pc' = "raised"
                /\ UNCHANGED <<context, result, steps>>
           ELSE /\ context' = InitialContext(job, workflow,
                                  LoadCredentials(processed_args, workflow.options,
                                                  job.project_id, db))
                /\ result' = InitialResult
                /\ steps' = SortedByOrder(workflow.steps)
                /\ pc' = "loop"
                /\ exc' = exc
    /\ idx' = 1
    /\ UNCHANGED <<job, workflow, args, db, processed_args, temp_files, ret, records, fs,
                   invoked, effects>>
    /\ UNCHANGED other_vars
(***************************************************************************)
(* execute_job 119-133: one iteration of the loop over the sorted steps.   *)
(***************************************************************************)
\* step.extension or {}
ExtensionOf(step) == IF step.extension = None THEN EmptyDict ELSE step.extension

\* step.step_type.value raises AttributeError on a str
HasValue(step_type) == step_type.t = "enum"

\* variant: the loop goes on after an executor raised
RunStep_ContinueOnError ==
    /\ pc = "loop"
    /\ idx <= Len(steps)
    /\ LET step == steps[idx]
           c1 == Put(context, "step_extension", ExtensionOf(step))
           c2 == Put(c1, "step_type", PyStr(<<step.step_type.value>>))
           key == GetExecutor(PyStr(Chars(step.step_type.value)))
           r == Execute(key, processed_args, c2, result)
       IN  IF ~HasValue(step.step_type)
           THEN /\ context' = c1
                /\ exc' = Exc("AttributeError",
                              <<"'", "str", "'", " object has no attribute ", "'", "value", "'">>)
                /\ pc' = "except"
                /\ UNCHANGED <<result, idx, invoked, effects, fs>>
           ELSE IF key = ""
           THEN /\ context' = c2
                /\ exc' = Exc("ValueError", <<"unsupported step type: ", step.step_type.value>>)
                /\ pc' = "except"
                /\ UNCHANGED <<result, idx, invoked, effects, fs>>
           ELSE /\ context' = c2
                /\ invoked' = Append(invoked, step.id)
                /\ effects' = IF r.started THEN Append(effects, step.id) ELSE effects
                /\ result' = r.result
                /\ fs' = fs \cup r.files
                /\ IF r.ok
                   THEN idx' = idx + 1 /\ pc' = pc /\ exc' = exc
                   ELSE idx' = idx + 1 /\ pc' = pc /\ exc' = Exc(r.exc, r.msg)
    /\ UNCHANGED <<job, workflow, args, db, processed_args, temp_files, steps, ret, records>>
    /\ UNCHANGED other_vars

\* variant: the kinds of all the steps are resolved before a step is run
RunStep_ValidatedFirst ==
    /\ pc = "loop"
    /\ idx <= Len(steps)
    /\ LET step == steps[idx]
           c1 == Put(context, "step_extension", ExtensionOf(step))
           c2 == Put(c1, "step_type", PyStr(<<step.step_type.value>>))
           key == IF \E j \in idx..Len(steps) :
                        HasValue(steps[j].step_type)
                        /\ GetExecutor(PyStr(Chars(steps[j].step_type.value))) = ""
                  THEN "" ELSE GetExecutor(PyStr(Chars(step.step_type.value)))
           r == Execute(key, processed_args, c2, result)
       IN  IF ~HasValue(step.step_type)
           THEN /\ context' = c1
                /\ exc' = Exc("AttributeError",
                              <<"'", "str", "'", " object has no attribute ", "'", "value", "'">>)
                /\ pc' = "except"
                /\ UNCHANGED <<result, idx, invoked, effects, fs>>
           ELSE IF key = ""
           THEN /\ context' = c2
                /\ exc' = Exc("ValueError", <<"unsupported step type: ", step.step_type.value>>)
                /\ pc' = "except"
                /\ UNCHANGED <<result, idx, invoked, effects, fs>>
           ELSE /\ context' = c2
                /\ invoked' = Append(invoked, step.id)
                /\ effects' = IF r.started THEN Append(effects, step.id) ELSE effects
                /\ result' = r.result
                /\ fs' = fs \cup r.files
                /\ IF r.ok
                   THEN idx' = idx + 1 /\ pc' = pc /\ exc' = exc
                   ELSE idx' = idx /\ pc' = "except" /\ exc' = Exc(r.exc, r.msg)
    /\ UNCHANGED <<job, workflow, args, db, processed_args, temp_files, steps, ret, records>>
    /\ UNCHANGED other_vars

RunStep ==
    /\ pc = "loop"
    /\ idx <= Len(steps)
    /\ LET step == steps[idx]
           c1 == Put(context, "step_extension", ExtensionOf(step))
           c2 == Put(c1, "step_type", PyStr(<<step.step_type.value>>))
           key == GetExecutor(PyStr(Chars(step.step_type.value)))
           r == Execute(key, processed_args, c2, result)
       IN  IF ~HasValue(step.step_type)
           THEN /\ context' = c1
                /\ exc' = Exc("AttributeError",
                              <<"'", "str", "'", " object has no attribute ", "'", "value", "'">>)
                /\ pc' = "except"
                /\ UNCHANGED <<result, idx, invoked, effects, fs>>
           ELSE IF key = ""
           THEN /\ context' = c2
                /\ exc' = Exc("ValueError", <<"unsupported step type: ", step.step_type.value>>)
                /\ pc' = "except"
                /\ UNCHANGED <<result, idx, invoked, effects, fs>>
           ELSE /\ context' = c2
                /\ invoked' = Append(invoked, step.id)
                /\ effects' = IF r.started THEN Append(effects, step.id) ELSE effects
                /\ result' = r.result
                /\ fs' = fs \cup r.files
                /\ IF r.ok
                   THEN idx' = idx + 1 /\ pc' = pc /\ exc' = exc
                   ELSE idx' = idx /\ pc' = "except" /\ exc' = Exc(r.exc, r.msg)
    /\ UNCHANGED <<job, workflow, args, db, processed_args, temp_files, steps, ret, records>>
    /\ UNCHANGED other_vars

(***************************************************************************)
(* execute_job 135-164: rendering and the success record.                  *)
(***************************************************************************)
\* variant: the error message is not stored
Execution_NoError(status, output_text, error_message) ==
    [job_id |-> job.id, user_id |-> 7, execution_type |-> "manual", status |-> status,
     args |-> args, output_text |-> output_text, error_message |-> None]

\* variant: every record is written with the status success
Execution_AlwaysSuccess(status, output_text, error_message) ==
    [job_id |-> job.id, user_id |-> 7, execution_type |-> "manual", status |-> "success",
     args |-> args, output_text |-> output_text, error_message |-> error_message]

\* JobExecution(...)
Execution(status, output_text, error_message) ==
    [job_id |-> job.id, user_id |-> 7, execution_type |-> "manual", status |-> status,
     args |-> args, output_text |-> output_text, error_message |-> error_message]

\* what db.commit() raises when the database rejects the write
CommitError == Exc("OperationalError", <<"database write failed">>)

Succeed ==
    /\ pc = "loop"
    /\ idx > Len(steps)
    /\ LET html == RenderResult(result)
           execution == Execution("success", Get(result, "text", <<>>), None)
       IN  \E commit_ok \in (IF db THEN BOOLEAN ELSE {TRUE}) :
              IF commit_ok
              THEN /\ records' = IF db THEN Append(records, execution) ELSE records
                   /\ ret' = [output |-> html, result |-> result]
                   /\ pc' = "finally"
                   /\ exc' = exc
              ELSE /\ exc' = CommitError
                   /\ pc' = "except"
                   /\ UNCHANGED <<records, ret>>
    /\ UNCHANGED <<job, workflow, args, db, processed_args, temp_files, context, result,
                   steps, idx, fs, invoked, effects>>
    /\ UNCHANGED other_vars

(***************************************************************************)
(* execute_job 166-192: the except block.                                  *)
(***************************************************************************)
\* variant: a failed run is run again from the failing step while retries are left
HandleException_Retry ==
    /\ pc = "except"
    /\ IF workflow.retry > 0 /\ Len(invoked) < Len(steps) + workflow.retry
       THEN pc' = "loop" /\ exc' = None /\ UNCHANGED <<records, ret>>
       ELSE /\ pc' = "finally"
            /\ exc' = None
            /\ ret' = [output |-> GenerateErrorHtml(exc.msg), error |-> exc.msg, result |-> result]
            /\ UNCHANGED records
    /\ UNCHANGED <<job, workflow, args, db, processed_args, temp_files, context, result,
                   steps, idx, fs, invoked, effects>>
    /\ UNCHANGED other_vars

HandleException ==
    /\ pc = "except"
    /\ LET error_message == exc.msg
           html == GenerateErrorHtml(error_message)
           execution == Execution("failure", Get(result, "text", <<>>), PyStr(error_message))
       IN  \E commit_ok \in (IF db THEN BOOLEAN ELSE {TRUE}) :
              IF commit_ok
              THEN /\ records' = IF db THEN Append(records, execution) ELSE records
                   /\ ret' = [output |-> html, error |-> error_message, result |-> result]
                   /\ exc' = None
              ELSE /\ exc' = CommitError
                   /\ UNCHANGED <<records, ret>>
    /\ pc' = "finally"
    /\ UNCHANGED <<job, workflow, args, db, processed_args, temp_files, context, result,
                   steps, idx, fs, invoked, effects>>
    /\ UNCHANGED other_vars

(***************************************************************************)
(* execute_job 193-204: the finally block, then the return or the raise.   *)
(***************************************************************************)
Finally ==
    /\ pc = "finally"
    /\ fs' = fs \ { temp_files[i] : i \in 1..Len(temp_files) }
    /\ pc' = IF exc = None THEN "returned" ELSE "raised"
    /\ UNCHANGED <<job, workflow, args, db, processed_args, temp_files, context, result,
                   steps, idx, exc, ret, records, invoked, effects>>
    /\ UNCHANGED other_vars

Next ==
    \/ Enter
    \/ ResolveFiles
    \/ Prepare
    \/ RunStep
    \/ Succeed
    \/ HandleException
    \/ Finally

Spec == Init /\ [][Next]_vars

(***************************************************************************)
(* ExecutorFactory.get_executor on its own: two calls, each with a kind    *)
(* that is None, the empty str, or a name in some mix of letter cases.     *)
(***************************************************************************)
UpperChar(c) ==
    IF \E p \in CasePairs : p[1] = c THEN (CHOOSE p \in CasePairs : p[1] = c)[2] ELSE c

\* s with its first n letters in upper case
Capitalized(s, n) == [i \in 1..Len(s) |-> IF i <= n THEN UpperChar(s[i]) ELSE s[i]]

KindNames == StepTypeEnum \cup {"cmd"}

Kinds ==
    {None, PyStr(<<>>)}
      \cup UNION { { PyStr(Capitalized(Chars(v), n)) : n \in (0..MaxCaps) \cup {Len(Chars(v))} } :
                    v \in KindNames }

FactoryInit ==
    /\ Idle
    /\ NoRuns
    /\ executing = None /\ outcome = None
    /\ step_types \in Kinds \X Kinds
    /\ resolved = <<>>

\* one call of ExecutorFactory.get_executor(step_types[i])
CallGetExecutor ==
    /\ \E i \in {1, 2} \ DOMAIN resolved :
          resolved' = Put(resolved, i, GetExecutor(step_types[i]))
    /\ UNCHANGED <<step_types, run_vars, conc_vars, exec_vars>>

FactoryNext == CallGetExecutor

FactorySpec == FactoryInit /\ [][FactoryNext]_vars

(***************************************************************************)
(* Two calls of execute_job under way at once, as two requests served by   *)
(* two threads of one process: each call has its own locals, the executor  *)
(* instances of ExecutorFactory._executors are shared.  The calls are made *)
(* as run_job makes them (args {}, no db).                                 *)
(***************************************************************************)
RunIds == {1, 2}

ConcContents ==
    { EchoA,
      [step_type |-> Enum("command"), extension |-> Ext("command", <<"exit 1">>)],
      [step_type |-> Enum("python_script"), extension |-> Ext("script", <<"ret_data">>)] }

ConcWorkflows ==
    { MkWorkflow(PyInt(5), DefaultOptions, ContentSteps(cs)) :
        cs \in SeqsUpTo(ConcContents, MaxConcSteps) }

\* the first run is of job 1, the second of job 1 or of job 2
ConcCalls(r) ==
    { Call([MkJob(1) EXCEPT !.id = j], w, <<>>, FALSE) : j \in 1..r, w \in ConcWorkflows }

NewRun(call) ==
    [pc |-> "entered", call |-> call, context |-> EmptyDict, result |-> EmptyDict,
     steps |-> <<>>, idx |-> 1, exc |-> None, ret |-> None]

ConcInit ==
    /\ Idle
    /\ step_types = <<>> /\ resolved = <<>>
    /\ instances = NoAttributes
    /\ executing = None /\ outcome = None
    /\ runs \in { <<NewRun(c1), NewRun(c2)>> : c1 \in ConcCalls(1), c2 \in ConcCalls(2) }

\* execute_job 120-133: one iteration of the loop, on the locals given
Iteration(step, pargs, ctx, res) ==
    LET c2 == Put(Put(ctx, "step_extension", ExtensionOf(step)),
                  "step_type", PyStr(<<step.step_type.value>>))
        key == GetExecutor(PyStr(Chars(step.step_type.value)))
        r == Execute(key, pargs, c2, res)
    IN  IF key = ""
        THEN [context |-> c2, result |-> res,
              exc |-> Exc("ValueError", <<"unsupported step type: ", step.step_type.value>>)]
        ELSE [context |-> c2, result |-> r.result,
              exc |-> IF r.ok THEN None ELSE Exc(r.exc, r.msg)]

\* execute_job 99-117 of run r
ConcPrepare(r) ==
    /\ runs[r].pc = "entered"
    /\ LET call == runs[r].call
       IN  runs' = [runs EXCEPT ![r] =
                      [@ EXCEPT !.pc = "loop",
                                !.context = InitialContext(call.job, call.workflow, EmptyDict),
                                !.result = InitialResult,
                                !.steps = SortedByOrder(call.workflow.steps)]]
    /\ UNCHANGED <<instances, run_vars, factory_vars, exec_vars>>

\* variant: the executor keeps the result it works on as an attribute of itself
ConcRunStep_OnInstance(r) ==
    /\ runs[r].pc = "loop"
    /\ runs[r].idx <= Len(runs[r].steps)
    /\ LET step == runs[r].steps[runs[r].idx]
           key == step.step_type.value
           kept == IF "result" \in DOMAIN instances[key] THEN instances[key].result
                   ELSE runs[r].result
           o == Iteration(step, <<>>, runs[r].context, kept)
       IN  /\ runs' = [runs EXCEPT ![r] =
                         [@ EXCEPT !.context = o.context, !.result = o.result, !.exc = o.exc,
                                   !.idx = IF o.exc = None THEN @ + 1 ELSE @,
                                   !.pc = IF o.exc = None THEN "loop" ELSE "except"]]
           /\ instances' = [instances EXCEPT ![key] = Put(@, "result", o.result)]
    /\ UNCHANGED <<run_vars, factory_vars, exec_vars>>

\* execute_job 120-133 of run r: the executors work on the dicts they are handed
ConcRunStep(r) ==
    /\ runs[r].pc = "loop"
    /\ runs[r].idx <= Len(runs[r].steps)
    /\ LET o == Iteration(runs[r].steps[runs[r].idx], <<>>, runs[r].context, runs[r].result)
       IN  runs' = [runs EXCEPT ![r] =
                      [@ EXCEPT !.context = o.context, !.result = o.result, !.exc = o.exc,
                                !.idx = IF o.exc = None THEN @ + 1 ELSE @,
                                !.pc = IF o.exc = None THEN "loop" ELSE "except"]]
    /\ UNCHANGED <<instances, run_vars, factory_vars, exec_vars>>

\* execute_job 135-164 of run r
ConcSucceed(r) ==
    /\ runs[r].pc = "loop"
    /\ runs[r].idx > Len(runs[r].steps)
    /\ LET res == runs[r].result
       IN  runs' = [runs EXCEPT ![r] =
                      [@ EXCEPT !.pc = "returned",
                                !.ret = [output |-> RenderResult(res), result |-> res]]]
    /\ UNCHANGED <<instances, run_vars, factory_vars, exec_vars>>

\* execute_job 166-192 of run r
ConcHandleException(r) ==
    /\ runs[r].pc = "except"
    /\ LET error_message == runs[r].exc.msg
       IN  runs' = [runs EXCEPT ![r] =
                      [@ EXCEPT !.pc = "returned",
                                !.ret = [output |-> GenerateErrorHtml(error_message),
                                         error |-> error_message, result |-> runs[r].result]]]
    /\ UNCHANGED <<instances, run_vars, factory_vars, exec_vars>>

ConcNext ==
    \E r \in RunIds :
       \/ ConcPrepare(r)
       \/ ConcRunStep(r)
       \/ ConcSucceed(r)
       \/ ConcHandleException(r)

ConcSpec == ConcInit /\ [][ConcNext]_vars

(***************************************************************************)
(* One call of execute made on an executor of each class directly, with    *)
(* any step extension, credential map and result so far.                   *)
(***************************************************************************)
\* the extensions with the key absent, or with one of the values
Extensions(key, values) == {EmptyDict} \cup { Ext(key, v) : v \in values }

ExecExtensions(cls) ==
    CASE cls = "command" ->
            Extensions("command", {<<>>, <<"echo A">>, <<"ls /nope">>, <<"sleep 3">>})
      [] cls \in {"shell_script", "python_script"} ->
            Extensions("script", {<<>>, <<"echo A">>, <<"ret_data">>, <<"sleep">>,
                                  <<"echo ", "U+D800">>})
      [] cls = "curl" ->
            Extensions("curl", {<<>>, <<"curl http://h/json">>, <<"curl http://h/", "{{ f }}">>,
                                <<"curl http://down">>, <<"curl http://slow">>, <<"{% if">>,
                                <<"curl http://h/", "--data-raw ", "'", "{'a': True}", "'">>,
                                <<"curl http://h/", "U+D800">>})
      [] cls = "mysql" ->
            { [k \in DOMAIN q \cup DOMAIN c |-> IF k \in DOMAIN c THEN c[k] ELSE q[k]] :
                q \in Extensions("sql", {<<>>, <<"SELECT 1">>,
                                         <<"select * from t where a = ", "{{ f }}">>,
                                         <<"DELETE FROM t">>, <<"DROP">>, <<"{% if">>}),
                c \in Extensions("credential_id",
                                 {None, PyInt(0), PyStr(<<>>), PyInt(1), PyInt(2), PyInt(3),
                                  PyInt(4), PyInt(5), PyStr(<<"1">>), PyStr(<<"x">>)}) }

\* credentials_map: the credentials execute_job loaded, by id
CredentialMaps ==
    { [id \in ids |-> CHOOSE c \in CredentialTable : c.id = id] :
        ids \in {{}, {1}, {2, 3}, {1, 3, 4, 5}} }

ExecInit ==
    /\ Idle
    /\ step_types = <<>> /\ resolved = <<>>
    /\ NoRuns
    /\ \E cls \in StepTypeEnum : \E extension \in ExecExtensions(cls) :
          \E a \in { <<>>, << <<"f", PyStr(<<"v">>)>> >> }, cm \in CredentialMaps,
             t \in {None, PyInt(1)},
             r \in { InitialResult, [text |-> <<"A">>, dataset |-> None, logs |-> <<"old">>] } :
                executing = [cls |-> cls, args |-> a, result |-> r,
                             context |-> [step_extension |-> extension,
                                          credentials_map |-> cm, timeout |-> t]]
    /\ outcome = None

\* executor.execute(args, context, result)
CallExecute ==
    /\ outcome = None
    /\ outcome' = ClassExecute(executing.cls, executing.args, executing.context, executing.result)
    /\ UNCHANGED <<executing, run_vars, factory_vars, conc_vars>>

ExecNext == CallExecute

ExecSpec == ExecInit /\ [][ExecNext]_vars

(***************************************************************************)
(* Vocabulary of the properties.                                           *)
(***************************************************************************)
\* the stored step with primary key id
StepOf(id) == workflow.steps[CHOOSE i \in 1..Len(workflow.steps) : workflow.steps[i].id = id]

OrderOf(id) == StepOf(id).order

Entered == pc \notin {"idle"}
ReturnedError == pc = "returned" /\ "error" \in DOMAIN ret
ReturnedSuccess == pc = "returned" /\ "error" \notin DOMAIN ret

\* an exception has been raised in this call
Failing == exc # None \/ "error" \in DOMAIN ret

\* the subprocess a step of an executable kind starts
StepProc(step) ==
    LET ext == ExtensionOf(step)
    IN  CASE step.step_type.value = "command" -> Shell(Get(ext, "command", <<>>))
          [] step.step_type.value = "shell_script" -> Shell(Get(ext, "script", <<>>))
          [] step.step_type.value = "python_script" -> UserScript(Get(ext, "script", <<>>))

\* the step's subprocess runs longer than the workflow's timeout
RunsTooLong(step) == workflow.timeout.t = "int" /\ StepProc(step).duration > workflow.timeout.n

\* the step's script hands a non-empty list back as the dataset
SetsDataset(step) ==
    /\ step.step_type.value = "python_script"
    /\ LET prog == UserScript(Get(ExtensionOf(step), "script", <<>>))
       IN  prog.kind = "return" /\ prog.dataset.t = "list" /\ prog.dataset.rows # <<>>

IsTimeoutMessage(msg) == msg # <<>> /\ msg[1] \in {"command timed out: ", "script timed out"}

IsExitCodeMessage(msg) ==
    \E i \in 1..Len(msg) : msg[i] \in {"command failed, return code: ", "script failed, return code: "}

(***************************************************************************)
(* C1 (as stated): the executors are invoked in strictly ascending         *)
(* Step.order.                                                             *)
(***************************************************************************)
C1_StrictlyAscending ==
    Entered => \A i, j \in 1..Len(invoked) : i < j => OrderOf(invoked[i]) < OrderOf(invoked[j])

(***************************************************************************)
(* C1 (amended): the executors are invoked in non-decreasing Step.order,   *)
(* steps of equal order in their stored order, and every step of a smaller *)
(* order than an invoked step was invoked, and had finished, before it.    *)
(***************************************************************************)
C1_AscendingOrder ==
    Entered =>
      /\ \A i, j \in 1..Len(invoked) : i < j =>
            \/ OrderOf(invoked[i]) < OrderOf(invoked[j])
            \/ OrderOf(invoked[i]) = OrderOf(invoked[j]) /\ invoked[i] < invoked[j]
      /\ \A j \in 1..Len(invoked) : \A k \in 1..Len(workflow.steps) :
            workflow.steps[k].order < OrderOf(invoked[j]) =>
                \E i \in 1..(j - 1) : invoked[i] = workflow.steps[k].id

\* steps stored with orders [2,1,3] have run as [1,2,3]
C1_Witness ==
    /\ Entered
    /\ Len(workflow.steps) = 3
    /\ [i \in 1..3 |-> workflow.steps[i].order] = <<2, 1, 3>>
    /\ invoked = <<2, 1, 3>>

C3_ExactlyOneRecord == pc = "returned" => Len(records) = 1

(***************************************************************************)
(* C4: a step that completes leaves the text accumulated before it at the   *)
(* start of result.text, before its own output (texts compared up to the   *)
(* surrounding whitespace, which appending trims).                         *)
(***************************************************************************)
C4_TextAppendOnly ==
    [][(pc = "loop" /\ pc' = "loop" /\ idx' = idx + 1)
         => IsPrefix(Strip(result.text), Strip(result'.text))]_vars

(***************************************************************************)
(* C5 (as stated): a successful run in which some step set a non-empty     *)
(* dataset returns the tabular rendering.                                  *)
(***************************************************************************)
C5_AnyDatasetStep ==
    ReturnedSuccess =>
      ((\E j \in 1..Len(invoked) : SetsDataset(StepOf(invoked[j]))) => IsTable(ret.output))

(***************************************************************************)
(* C5 (amended): a successful run in which a step set a non-empty dataset  *)
(* and no PythonScript step ran after that step returns the tabular        *)
(* rendering, whatever result.text holds.                                  *)
(***************************************************************************)
C5_LastDatasetStep ==
    ReturnedSuccess =>
      \A j \in 1..Len(invoked) :
         (/\ SetsDataset(StepOf(invoked[j]))
          /\ \A k \in (j + 1)..Len(invoked) :
                StepOf(invoked[k]).step_type.value # "python_script")
         => IsTable(ret.output)

\* a dataset step followed by a Command step: table, although text is not empty
C5_Witness ==
    /\ ReturnedSuccess
    /\ Len(invoked) = 2
    /\ SetsDataset(StepOf(invoked[1]))
    /\ StepOf(invoked[2]).step_type.value = "command"
    /\ ret.result.text # <<>>
    /\ IsTable(ret.output)
(***************************************************************************)
(* C6: a step whose subprocess runs longer than the timeout is the last    *)
(* step invoked; its invocation raises a TimeoutError whose message is the *)
(* timeout message and not the exit-code message, and the run does not end *)
(* in success.                                                             *)
(***************************************************************************)
C6_TimeoutStopsRun ==
    Entered =>
      \A j \in 1..Len(invoked) : RunsTooLong(StepOf(invoked[j])) =>
         /\ j = Len(invoked)
         /\ pc \in {"except", "finally", "returned", "raised"}
         /\ ~ReturnedSuccess
         /\ pc = "except" =>
               exc.type = "TimeoutError" /\ IsTimeoutMessage(exc.msg) /\ ~IsExitCodeMessage(exc.msg)
         /\ pc = "returned" =>
               IsTimeoutMessage(ret.error) /\ ~IsExitCodeMessage(ret.error)

\* a run has returned the timeout error of its first step; its second step never ran
C6_Witness ==
    /\ ReturnedError
    /\ Len(steps) = 2 /\ Len(invoked) = 1
    /\ RunsTooLong(StepOf(invoked[1]))
    /\ IsTimeoutMessage(ret.error)

(***************************************************************************)
(* C7: the credential map of the context holds credentials of the job's    *)
(* project only; no credential of another project is a key of it.          *)
(***************************************************************************)
C7_ProjectScoped ==
    "credentials_map" \in DOMAIN context =>
       /\ \A id \in DOMAIN context.credentials_map :
             context.credentials_map[id].project_id = job.project_id
       /\ \A c \in CredentialTable :
             c.project_id # job.project_id => c.id \notin DOMAIN context.credentials_map

\* the args name credential 2 of project 2 under a credential option of a job
\* of project 1: nothing is resolved
C7_Witness ==
    /\ "credentials_map" \in DOMAIN context
    /\ db /\ job.project_id = 1
    /\ args = << <<"cred", PyInt(2)>> >>
    /\ workflow.options = DefaultOptions
    /\ DOMAIN context.credentials_map = {}

(***************************************************************************)
(* C8: every key of the credential map is the integer value of an argument *)
(* whose name the workflow declares as an option of type credential.       *)
(***************************************************************************)
C8_DeclaredOnly ==
    "credentials_map" \in DOMAIN context =>
       \A id \in DOMAIN context.credentials_map :
          \E i \in 1..Len(args) :
             /\ args[i][2].t \in {"int", "str"}
             /\ IntParses(StrOf(args[i][2]))
             /\ ParseInt(StrOf(args[i][2])) = id
             /\ \E j \in 1..Len(workflow.options) :
                   /\ workflow.options[j].name = args[i][1]
                   /\ workflow.options[j].option_type = "credential"

\* credential 1 is named under the credential option and resolved, credential 3
\* of the same project is named under an undeclared argument and not resolved
C8_Witness ==
    /\ "credentials_map" \in DOMAIN context
    /\ db /\ job.project_id = 1
    /\ args = << <<"cred", PyStr(<<"1">>)>>, <<"x", PyInt(3)>> >>
    /\ workflow.options = DefaultOptions
    /\ DOMAIN context.credentials_map = {1}

(***************************************************************************)
(* C9: when a step fails, every record written is a failure record with    *)
(* the error message and the text accumulated up to the failure; the       *)
(* outcome's output is the error block built from the message alone, and   *)
(* the message of a Command or ShellScript that exits non-zero holds the    *)
(* exit code.                                                              *)
(***************************************************************************)
C9_FailureRecord ==
    (pc \in {"except", "finally", "returned", "raised"} /\ idx <= Len(steps)) =>
       /\ \A i \in 1..Len(records) :
             /\ records[i].status = "failure"
             /\ records[i].error_message # None
             /\ records[i].output_text = result.text
       /\ "error" \in DOMAIN ret =>
             /\ ret.output = <<"<div style=color:red>">> \o EscapeBr(ret.error) \o <<"</div>">>
             /\ ret.result = result
             /\ db => Len(records) = 1 /\ records[1].error_message = PyStr(ret.error)
             /\ LET step == steps[idx]
                IN  (/\ HasValue(step.step_type)
                     /\ step.step_type.value \in {"command", "shell_script"}
                     /\ ~RunsTooLong(step)
                     /\ Encodable(Get(ExtensionOf(step), "script", <<>>))
                     /\ StepProc(step).returncode # 0
                     /\ Get(ExtensionOf(step), "command", <<>>) # <<>>
                          \/ Get(ExtensionOf(step), "script", <<>>) # <<>>)
                    => \E k \in 1..Len(ret.error) :
                          /\ ret.error[k] \in {"command failed, return code: ",
                                               "script failed, return code: "}
                          /\ IsPrefix(IntStr(StepProc(step).returncode),
                                      SubSeq(ret.error, k + 1, Len(ret.error)))

\* `exit 1` fails as the second step, after a step that set text and dataset
C9_Witness ==
    /\ ReturnedError /\ db
    /\ Len(steps) = 2 /\ idx = 2
    /\ Get(ExtensionOf(steps[2]), "command", <<>>) = <<"exit 1">>
    /\ Len(records) = 1 /\ records[1].status = "failure"
    /\ records[1].output_text = <<"U">>
    /\ ret.result.dataset # None
    /\ Contains(ret.error, <<"command failed, return code: ", "1">>)

(***************************************************************************)
(* C10: no failure of a run leaves execute_job as an exception (a failure   *)
(* of the record write apart): a failing run ends with an outcome returned. *)
(***************************************************************************)
C10_NeverRaises == ~(pc = "raised" /\ exc.type # CommitError.type)

(***************************************************************************)
(* C11: a step that fails leaves the text and the logs accumulated by the  *)
(* steps before it in result (up to the surrounding whitespace, which      *)
(* appending trims), and the failure outcome and the failure record carry  *)
(* that result.                                                            *)
(***************************************************************************)
C11_PartialKept ==
    [][/\ (pc = "loop" /\ pc' = "except" /\ invoked' # invoked) =>
             /\ Contains(result'.text, Strip(result.text))
             /\ Contains(result'.logs, Strip(result.logs))
       /\ (pc = "except" /\ idx <= Len(steps) /\ "error" \in DOMAIN ret') =>
             /\ ret'.result = result
             /\ \A i \in 1..Len(records') : records'[i].output_text = result.text]_vars

\* the loop over the sorted steps has run to its end: every step succeeded
LoopCompleted == context # EmptyDict /\ idx > Len(steps)

(***************************************************************************)
(* C12: a run that returns without an error returns the rendering of the   *)
(* terminal result and has written one record, of status success, with no  *)
(* error message and the terminal text; a single Command step that echoes  *)
(* one word leaves that word as the text.                                  *)
(***************************************************************************)
C12_SuccessOutcome ==
    ReturnedSuccess =>
       /\ ret.result = result
       /\ ret.output = RenderResult(result)
       /\ Len(records) = 1
       /\ records[1].status = "success"
       /\ records[1].error_message = None
       /\ records[1].output_text = result.text
       /\ workflow.steps = <<MkStep(1, 1, EchoA)>> => result.text = <<"A">>

(***************************************************************************)
(* C13: when execute_job has returned or raised, no path it recorded in    *)
(* temp_files exists any more.                                             *)
(***************************************************************************)
C13_TempFilesReleased ==
    pc \in {"returned", "raised"} => \A i \in 1..Len(temp_files) : temp_files[i] \notin fs

\* the dataset is present and holds at least one entry
NonEmptyDataset(dataset) == dataset # None /\ ~(dataset.t = "list" /\ dataset.rows = <<>>)

(***************************************************************************)
(* C14: the output of a run that returns without an error is the table     *)
(* built from the terminal dataset when that dataset is present and not    *)
(* empty, and in every other case the terminal text, HTML-escaped, with    *)
(* line breaks for newlines.                                               *)
(***************************************************************************)
C14_RenderingRule ==
    ReturnedSuccess =>
       IF NonEmptyDataset(Get(result, "dataset", None))
       THEN IsTable(ret.output) /\ ret.output = GenerateTableHtml(result.dataset)
       ELSE ret.output = <<"<div>">> \o EscapeBr(Get(result, "text", <<>>)) \o <<"</div>">>

\* the two characters are one letter, in the same or in different case
SameLetter(c, d) == c = d \/ <<c, d>> \in CasePairs \/ <<d, c>> \in CasePairs

\* the two strs differ at most in the case of their letters
DiffersOnlyInCase(a, b) == Len(a) = Len(b) /\ \A i \in 1..Len(a) : SameLetter(a[i], b[i])

\* the registry holds a key that is the kind up to letter case
HasMapping(kind) ==
    kind.t = "str" /\ \E key \in Executors : DiffersOnlyInCase(Chars(key), kind.s)

(***************************************************************************)
(* C15: two kinds that differ only in letter case resolve to the same      *)
(* executor instance; a kind that has a mapping resolves to the executor   *)
(* registered under its lower-case spelling, and a kind that has none      *)
(* (None and the empty str included) makes get_executor raise.             *)
(***************************************************************************)
C15_CaseNormalizedTotal ==
    \A i \in DOMAIN resolved :
       /\ \A j \in DOMAIN resolved :
             (/\ step_types[i].t = "str" /\ step_types[j].t = "str"
              /\ DiffersOnlyInCase(step_types[i].s, step_types[j].s))
             => resolved[i] = resolved[j]
       /\ HasMapping(step_types[i]) =>
             /\ resolved[i] \in Executors
             /\ DiffersOnlyInCase(Chars(resolved[i]), step_types[i].s)
       /\ ~HasMapping(step_types[i]) => resolved[i] = ""

\* COMMAND and command have both been resolved, to the one CommandExecutor
C15_Witness ==
    /\ DOMAIN resolved = {1, 2}
    /\ step_types = <<PyStr(<<"C", "O", "M", "M", "A", "N", "D">>), PyStr(Chars("command"))>>
    /\ resolved[1] = "command" /\ resolved[2] = "command"

(***************************************************************************)
(* C16: a step whose kind is a member of StepTypeEnum is resolved and run: *)
(* when a run fails at such a step, the step's executor was invoked (the   *)
(* failure is the executor's, not the factory's).                          *)
(***************************************************************************)
C16_EveryKindResolves ==
    (/\ pc = "except" /\ idx <= Len(steps)
     /\ HasValue(steps[idx].step_type)
     /\ steps[idx].step_type.value \in StepTypeEnum)
    => (invoked # <<>> /\ Last(invoked) = steps[idx].id)

(***************************************************************************)
(* C17: whatever workflow.retry is, it is copied into the context and the  *)
(* executors invoked so far are those of the first steps in sorted order,  *)
(* each once: no step is invoked a second time and no failed run starts    *)
(* again.                                                                  *)
(***************************************************************************)
C17_RetryNotApplied ==
    context # EmptyDict =>
       /\ context.retry = PyInt(workflow.retry)
       /\ Len(invoked) <= Len(steps)
       /\ \A i \in 1..Len(invoked) : invoked[i] = steps[i].id
       /\ Failing => Len(invoked) <= idx

\* a run with retry 3 has failed at its second step; each step ran once
C17_Witness ==
    /\ ReturnedError
    /\ workflow.retry = 3
    /\ Len(steps) = 2 /\ invoked = <<1, 2>>
    /\ Contains(ret.error, <<"command failed, return code: ", "1">>)

(***************************************************************************)
(* C19: when every step has succeeded, the call ends with the success      *)
(* outcome, also when the write of the execution record fails.             *)
(***************************************************************************)
C19_WriteFailureNotMasking ==
    (LoopCompleted /\ pc \in {"returned", "raised"}) => ReturnedSuccess

\* the workflow declares the argument's name as an option of type file
IsFileOption(options, key) ==
    \E j \in 1..Len(options) : options[j].name = key /\ options[j].option_type = "file"

\* positions of the arguments bound to a file option whose value is a str
\* path that does not exist when execute_job is entered
MissingPathArgs ==
    { i \in 1..Len(args) :
        /\ IsFileOption(workflow.options, args[i][1])
        /\ args[i][2].t = "str"
        /\ args[i][2].s \notin UploadedPaths }

\* the argument at position j is no file argument or is one that resolves
ResolvesAt(j) ==
    \/ ~IsFileOption(workflow.options, args[j][1])
    \/ args[j][2].t = "str" /\ args[j][2].s \in UploadedPaths
    \/ args[j][2].t = "dict" /\ SaveFileToTemp(args[j][2], UploadedPaths).ok

\* the run has failed before the credentials were resolved and before any step
FailedBeforeCredentials ==
    /\ pc = "raised" /\ exc.type = "ValueError"
    /\ context = EmptyDict /\ steps = <<>> /\ invoked = <<>> /\ effects = <<>>

(***************************************************************************)
(* C20 (as stated): for every file argument that is a str path that does   *)
(* not exist, the run fails, before the credentials are resolved and with  *)
(* no executor invoked, with an error that names that argument.            *)
(***************************************************************************)
C20_NamesEveryMissingPath ==
    pc \notin {"idle", "files"} =>
       \A i \in MissingPathArgs :
          FailedBeforeCredentials /\ Contains(exc.msg, <<"'", args[i][1], "'">>)

(***************************************************************************)
(* C20 (amended): if some file argument is a str path that does not exist, *)
(* the run fails before the credentials are resolved and with no executor  *)
(* invoked; the error names that argument and its path when every file     *)
(* argument before it in args resolves.                                    *)
(***************************************************************************)
C20_FailsFast ==
    (pc \notin {"idle", "files"} /\ MissingPathArgs # {}) =>
       /\ FailedBeforeCredentials
       /\ \A i \in MissingPathArgs :
             (\A j \in 1..(i - 1) : ResolvesAt(j)) =>
                exc.msg = <<"file argument ", "'", args[i][1], "'", " path does not exist: ">>
                              \o args[i][2].s

\* f is an uploaded file object, g a path that does not exist: the error names g
C20_Witness ==
    /\ FailedBeforeCredentials
    /\ workflow.options = DefaultOptions
    /\ args = << <<"f", FileObj(<<"/v">>)>>, <<"g", PyStr(<<"/x">>)>> >>
    /\ Contains(exc.msg, <<"'", "g", "'">>)

\* the locals of a call of execute_job that runs alone, after n iterations of
\* its loop
RECURSIVE LoneRun(_, _)
LoneRun(call, n) ==
    IF n = 0
    THEN [context |-> InitialContext(call.job, call.workflow, EmptyDict),
          result |-> InitialResult, idx |-> 1, exc |-> None]
    ELSE LET before == LoneRun(call, n - 1)
             sorted == SortedByOrder(call.workflow.steps)
             o == Iteration(sorted[before.idx], <<>>, before.context, before.result)
         IN  IF before.exc # None \/ before.idx > Len(sorted) THEN before
             ELSE [context |-> o.context, result |-> o.result,
                   idx |-> IF o.exc = None THEN before.idx + 1 ELSE before.idx, exc |-> o.exc]

\* what that call returns
LoneOutcome(call) ==
    LET end == LoneRun(call, Len(call.workflow.steps))
    IN  IF end.exc = None
        THEN [output |-> RenderResult(end.result), result |-> end.result]
        ELSE [output |-> GenerateErrorHtml(end.exc.msg), error |-> end.exc.msg,
              result |-> end.result]

C21_FiniteLimit ==
    effects # <<>> =>
        LET limit == Get(context, "timeout", PyInt(300))
        IN  /\ limit.t = "int"
            /\ limit = IF workflow.timeout = None THEN PyInt(300) ELSE workflow.timeout

(***************************************************************************)
(* C22: a Command or ShellScript step whose subprocess ends appends its    *)
(* stdout to result.text and its stderr to result.text under the error     *)
(* marker before it looks at the exit code: both are in result.text also   *)
(* when the exit code is not zero, and then the step raises an error whose *)
(* message holds the exit code and the captured stderr and never returns   *)
(* normally (the loop does not go on to the next step).                    *)
(***************************************************************************)
\* the step the loop is at is of one of the kinds, has its command line or
\* script, and its subprocess is started and ends within the limit
AtEndingStep(kinds) ==
    /\ pc = "loop" /\ idx <= Len(steps)
    /\ HasValue(steps[idx].step_type)
    /\ steps[idx].step_type.value \in kinds
    /\ ~RunsTooLong(steps[idx])
    /\ Encodable(Get(ExtensionOf(steps[idx]), "script", <<>>))
    /\ Get(ExtensionOf(steps[idx]),
           IF steps[idx].step_type.value = "command" THEN "command" ELSE "script", <<>>) # <<>>

C22_OutputsBeforeExitCode ==
    [][ AtEndingStep({"command", "shell_script"}) =>
            LET proc == StepProc(steps[idx])
                text == Get(result', "text", <<>>)
            IN  /\ Contains(text, Strip(proc.stdout))
                /\ proc.stderr # <<>> => Contains(text, <<"[error]", "\n">> \o Strip(proc.stderr))
                /\ proc.returncode # 0 =>
                      /\ pc' = "except" /\ idx' = idx
                      /\ exc'.type = "RuntimeError"
                      /\ Contains(exc'.msg, IntStr(proc.returncode) \o <<"\n">> \o proc.stderr)
                /\ proc.returncode = 0 => pc' = "loop" /\ idx' = idx + 1 /\ exc' = None ]_vars

C22_Witness ==
    /\ pc = "except" /\ idx <= Len(steps)
    /\ HasValue(steps[idx].step_type)
    /\ steps[idx].step_type.value \in {"command", "shell_script"}
    /\ StepProc(steps[idx]).returncode # 0
    /\ StepProc(steps[idx]).stdout # <<>> /\ StepProc(steps[idx]).stderr # <<>>
    /\ idx > 1 /\ Get(result, "text", <<>>) # <<>>
    /\ exc.type = "RuntimeError"

(***************************************************************************)
(* C23: when the execute of a ShellScript or PythonScript step has         *)
(* returned or raised, the temporary script file it created exists no      *)
(* more, whatever the exit path.                                           *)
(***************************************************************************)
C23_ScriptFilesDeleted ==
    invoked # <<>> => fs \cap { TempScript(".sh"), TempScript(".py") } = {}

CredentialUnresolved ==
    LET cid == Get(executing.context.step_extension, "credential_id", None)
        cm == executing.context.credentials_map
    IN  \/ cid.t \notin {"int", "str"}
        \/ cid.t = "str" /\ ~IntParses(cid.s)
        \/ LET id == IF cid.t = "int" THEN cid.n ELSE ParseInt(cid.s)
           IN  \/ id \notin DOMAIN cm
               \/ cm[id].credential_type # "mysql"
               \/ cm[id].config = EmptyDict

C25_CredentialFailure ==
    outcome # None /\ executing.cls = "mysql" /\ CredentialUnresolved =>
        /\ ~outcome.ok
        /\ outcome.events = <<>> /\ ~outcome.started
        /\ outcome.result = executing.result

C25_Witness ==
    /\ outcome # None /\ executing.cls = "mysql"
    /\ Get(executing.context.step_extension, "sql", <<>>) = <<"SELECT 1">>
    /\ Get(executing.context.step_extension, "credential_id", None) = PyInt(3)
    /\ 3 \in DOMAIN executing.context.credentials_map
    /\ executing.result.logs # <<>>
    /\ ~outcome.ok /\ outcome.exc = "ValueError"

(***************************************************************************)
(* C26: a step whose required configuration is missing or empty (command   *)
(* for Command, script for ShellScript and PythonScript, curl for Curl,    *)
(* sql or credential_id for Mysql) fails at once: execute raises before a  *)
(* subprocess is started, a temporary file is created, a template is       *)
(* rendered or a connection is opened, and leaves the result as it was     *)
(* (no executor holds a way to change the context).                        *)
(***************************************************************************)
\* the extension of the call lacks a value the class requires
ConfigMissing ==
    LET extension == executing.context.step_extension
    IN  CASE executing.cls = "command" -> Get(extension, "command", <<>>) = <<>>
          [] executing.cls \in {"shell_script", "python_script"} ->
                Get(extension, "script", <<>>) = <<>>
          [] executing.cls = "curl" -> Get(extension, "curl", <<>>) = <<>>
          [] executing.cls = "mysql" ->
                \/ Get(extension, "sql", <<>>) = <<>>
                \/ Get(extension, "credential_id", None) \in {None, PyStr(<<>>)}

C26_ConfigFailsFirst ==
    outcome # None /\ ConfigMissing =>
        /\ ~outcome.ok /\ outcome.exc = "ValueError"
        /\ ~outcome.started /\ outcome.events = <<>> /\ outcome.files = {}
        /\ outcome.result = executing.result

C26_Witness ==
    /\ outcome # None /\ executing.cls = "mysql"
    /\ Get(executing.context.step_extension, "sql", <<>>) = <<"SELECT 1">>
    /\ "credential_id" \notin DOMAIN executing.context.step_extension
    /\ 1 \in DOMAIN executing.context.credentials_map
    /\ executing.result.logs # <<>>
    /\ ~outcome.ok

(***************************************************************************)
(* C27: whenever execute_job has written an execution record, the status   *)
(* of the record agrees with the outcome handed to the caller: it is       *)
(* failure exactly when the outcome carries an error, whose message the    *)
(* record holds, and success exactly when the outcome carries none.        *)
(***************************************************************************)
C27_StatusAgrees ==
    \A i \in 1..Len(records) :
        /\ ret # None
        /\ records[i].status \in {"success", "failure"}
        /\ records[i].status = "failure" <=> "error" \in DOMAIN ret
        /\ records[i].status = "failure" => records[i].error_message = PyStr(ret.error)
        /\ records[i].status = "success" => records[i].error_message = None

C27_Witness ==
    /\ pc = "returned"
    /\ Len(steps) > 0 /\ idx > Len(steps)
    /\ records # <<>> /\ records[1].status = "failure"
    /\ "error" \in DOMAIN ret

(***************************************************************************)
(* C28: result.logs after a PythonScript step that prints a result marker  *)
(* block is the logs gathered before the step followed by the new log      *)
(* output of the step (what it printed before the marker, then its         *)
(* stderr): an entry an earlier step logged is there exactly once.         *)
(***************************************************************************)
\* the number of places at which the token stands in s
Count(s, tok) == Cardinality({ i \in 1..Len(s) : s[i] = tok })

C28_LogsNotDuplicated ==
    [][ AtEndingStep({"python_script"}) /\ StepProc(steps[idx]).kind # "exit" =>
            LET prog == StepProc(steps[idx])
                before == Get(result, "logs", <<>>)
                after == Get(result', "logs", <<>>)
            IN  /\ IsPrefix(before, after)
                /\ \A tok \in {"L", "W"} :
                      Count(after, tok) = Count(before, tok) + Count(prog.prints, tok)
                                            + Count(prog.stderr, tok) ]_vars

(***************************************************************************)
(* C29: the kinds of the steps are resolved one step at a time inside the  *)
(* loop.  When the first step of an unsupported kind stands at position k  *)
(* of the sorted steps, no step from k on is ever executed and the run     *)
(* never succeeds; when the run fails at step k, the steps 1..k-1 have     *)
(* all executed by then, their subprocesses were started and what they     *)
(* left in result is what the caller gets.                                 *)
(***************************************************************************)
\* the step at position k is of a kind that has no executor
UnsupportedAt(k) ==
    /\ HasValue(steps[k].step_type)
    /\ GetExecutor(PyStr(Chars(steps[k].step_type.value))) = ""

\* the run failed because a kind could not be resolved
FailedUnsupported ==
    \/ pc = "except" /\ exc.msg[1] = "unsupported step type: "
    \/ "error" \in DOMAIN ret /\ ret.error[1] = "unsupported step type: "

C29_LazyResolution ==
    \A k \in 1..Len(steps) :
        UnsupportedAt(k) /\ (\A j \in 1..(k - 1) : ~UnsupportedAt(j)) =>
            /\ Len(invoked) <= k - 1
            /\ \A i \in 1..Len(invoked) : invoked[i] = steps[i].id
            /\ ~ReturnedSuccess
            /\ FailedUnsupported =>
                  /\ idx = k
                  /\ invoked = [i \in 1..(k - 1) |-> steps[i].id]
                  /\ effects = invoked
                  /\ "error" \in DOMAIN ret => ret.result = result

C29_Witness ==
    /\ ReturnedError /\ FailedUnsupported
    /\ Len(steps) = 2 /\ UnsupportedAt(2)
    /\ invoked = <<steps[1].id>> /\ effects = invoked
    /\ ret.result.text # <<>>

(***************************************************************************)
(* C30: a credential is in the credential map of the context of a run only *)
(* if the run was given a database session and the id of the credential    *)
(* was passed in the args of the run under an Option of type credential.   *)
(* A credential_id that stands only in the extension of a Mysql step is    *)
(* not in the map, and the map of a run without a session is empty.        *)
(***************************************************************************)
C30_CredentialVisibility ==
    context # EmptyDict =>
        /\ ~db => context.credentials_map = EmptyDict
        /\ \A id \in DOMAIN context.credentials_map :
              /\ db
              /\ \E i \in 1..Len(args) :
                    /\ args[i][2] \in {PyInt(id), PyStr(NatStr(id))}
                    /\ \E j \in 1..Len(workflow.options) :
                          /\ workflow.options[j].name = args[i][1]
                          /\ workflow.options[j].option_type = "credential"

\* a run with a session has reached a Mysql step that names a credential of
\* the job's project which the args do not pass
C30_Witness ==
    /\ db /\ pc = "returned" /\ idx <= Len(steps)
    /\ HasValue(steps[idx].step_type) /\ steps[idx].step_type.value = "mysql"
    /\ Get(ExtensionOf(steps[idx]), "credential_id", None) = PyInt(1)
    /\ \E c \in CredentialTable : c.id = 1 /\ c.project_id = job.project_id
    /\ args = <<>>
    /\ context.credentials_map = EmptyDict

====
